---------------------------- MODULE Spec2Model ----------------------------
(***************************************************************************)
(* Retrieval-augmented context engine of the patient-risk pipeline:        *)
(* src/src/rag_tfidf.py (index construction, retrieval, context            *)
(* formatting) and its caller in src/src/patient_risk_pipeline.py (the     *)
(* import-time RAG_INDEX and query_combined_prompt).                       *)
(*                                                                         *)
(* Strings are sequences of one-character strings, so that len(), strip()  *)
(* and slicing are computed and not assumed.  A missing CSV cell (pandas   *)
(* NaN) is the one-element sequence NaN.                                   *)
(***************************************************************************)
EXTENDS Integers, Sequences, FiniteSets, TLC

VARIABLES
    env,          \* os.environ: the RAG_* settings of the process
    world,        \* what lies outside the process: the KB file, the model hub, the sort
    pc,           \* position of the process / of the call under test
    RAG_INDEX,    \* patient_risk_pipeline.RAG_INDEX (module global)
    rag_warning,  \* the "RAG unavailable: ..." warning logged at import, or "none"
    effects,      \* counters of the side effects performed so far
    arg,          \* arguments of the call in progress / last made
    ret           \* what the last call returned

vars == <<env, world, pc, RAG_INDEX, rag_warning, effects, arg, ret>>

-----------------------------------------------------------------------------
(* Bounds of the model *)

MaxRows == 3

MaxTopK == 4

MaxChars == 14

MaxNotes == 2

(* Program constants *)

DefaultMaxChars == 2500

DefaultTopK == 4

DefaultBatchSize == 32

DefaultMaxLength == 256

DefaultAuditMax == 1200

-----------------------------------------------------------------------------
(* Strings *)

NaN == <<"NaN">>

EmptyStr == <<>>

IsSpace(c) == c \in {" ", "\n"}

Rep(c, n) == [i \in 1..n |-> c]

RECURSIVE lstrip(_)
lstrip(s) ==
    IF s # <<>> /\ IsSpace(Head(s)) THEN lstrip(Tail(s)) ELSE s

RECURSIVE rstrip(_)
rstrip(s) ==
    IF s # <<>> /\ IsSpace(s[Len(s)]) THEN rstrip(SubSeq(s, 1, Len(s) - 1)) ELSE s

\* str.strip()
strip(s) == rstrip(lstrip(s))

\* str(value) of a cell of a DataFrame row: a float NaN prints as "nan"
str(v) == IF v = NaN THEN <<"n", "a", "n">> ELSE v

\* s[:n] for n >= 0
SliceTo(s, n) == SubSeq(s, 1, IF n < Len(s) THEN n ELSE Len(s))

RECURSIVE join(_, _)
join(sep, parts) ==
    IF parts = <<>> THEN <<>>
    ELSE IF Len(parts) = 1 THEN parts[1]
    ELSE parts[1] \o sep \o join(sep, Tail(parts))

RECURSIVE SumLen(_)
SumLen(parts) ==
    IF parts = <<>> THEN 0 ELSE Len(Head(parts)) + SumLen(Tail(parts))

-----------------------------------------------------------------------------
(* DataFrames: None, or a sequence of rows (records with title and text) *)

None == [isNone |-> TRUE, rows |-> <<>>]

DataFrame(rows) == [isNone |-> FALSE, rows |-> rows]

-----------------------------------------------------------------------------
(* format_rag_context *)

ContextHeader ==
    <<"R", "E", "L", "E", "V", "A", "N", "T", " ",
      "C", "O", "N", "T", "E", "X", "T", ":", "\n", "\n">>

BlockSeparator == <<"\n", "\n", "-", "-", "-", "\n", "\n">>

\* title / text of one row as the loop reads them
RowTitle(row) == strip(str(row.title))

RowText(row) == strip(str(row.text))

\* block = f"[{title}]\n{text}".strip()
RowBlock(row) == strip(<<"[">> \o RowTitle(row) \o <<"]", "\n">> \o RowText(row))

\* the budget test of the loop: TRUE when the block is refused
OverBudget(total, block, max_chars) == total + Len(block) > max_chars

\* (mutant) the loop with "continue" where the code has "break"
RECURSIVE FormatLoopContinue(_, _, _, _, _)
FormatLoopContinue(rows, i, kept, total, max_chars) ==
    IF i > Len(rows) THEN kept
    ELSE IF RowTitle(rows[i]) = <<>> /\ RowText(rows[i]) = <<>>
         THEN FormatLoopContinue(rows, i + 1, kept, total, max_chars)
    ELSE IF OverBudget(total, RowBlock(rows[i]), max_chars)
         THEN FormatLoopContinue(rows, i + 1, kept, total, max_chars)
    ELSE FormatLoopContinue(rows, i + 1,
                            Append(kept, [pos |-> i, block |-> RowBlock(rows[i])]),
                            total + Len(RowBlock(rows[i])), max_chars)

\* the for-loop over df.iterrows(): kept holds, per appended block, the
\* position of its row in df and the block's text
RECURSIVE FormatLoop(_, _, _, _, _)
FormatLoop(rows, i, kept, total, max_chars) ==
    IF i > Len(rows) THEN kept
    ELSE IF RowTitle(rows[i]) = <<>> /\ RowText(rows[i]) = <<>>
         THEN FormatLoop(rows, i + 1, kept, total, max_chars)
    ELSE IF OverBudget(total, RowBlock(rows[i]), max_chars) THEN kept
    ELSE FormatLoop(rows, i + 1,
                    Append(kept, [pos |-> i, block |-> RowBlock(rows[i])]),
                    total + Len(RowBlock(rows[i])), max_chars)

KeptBlocks(kept) == [j \in 1..Len(kept) |-> kept[j].block]

\* (mutant) every block rendered, the result cut to max_chars
FormatTruncating(df, max_chars) ==
    LET kept == FormatLoop(df.rows, 1, <<>>, 0, DefaultMaxChars)
    IN  [out  |-> IF kept = <<>> THEN EmptyStr
                  ELSE SliceTo(ContextHeader \o join(BlockSeparator, KeptBlocks(kept)),
                               max_chars),
         kept |-> kept]

\* the returned string, with the positions of the rows it holds
format_rag_context(df, max_chars) ==
    IF df.isNone \/ df.rows = <<>>
    THEN [out |-> EmptyStr, kept |-> <<>>]
    ELSE LET kept == FormatLoop(df.rows, 1, <<>>, 0, max_chars)
         IN  [out  |-> IF kept = <<>> THEN EmptyStr
                       ELSE ContextHeader \o join(BlockSeparator, KeptBlocks(kept)),
              kept |-> kept]

-----------------------------------------------------------------------------
(* Exact arithmetic on similarities.                                       *)
(*                                                                         *)
(* A vector is [v, den2]: the real vector v / sqrt(den2), v a tuple of     *)
(* integers.  A similarity is [num, den] with den > 0: the real number     *)
(* sgn(num) * sqrt(|num| / den).  Order and equality of similarities are   *)
(* those of the real numbers the floats of the program stand for; 1.0 is   *)
(* num = den and 0.0 is num = 0.                                           *)

RECURSIVE Dot(_, _)
Dot(a, b) ==
    IF a = <<>> THEN 0 ELSE Head(a) * Head(b) + Dot(Tail(a), Tail(b))

Norm2(a) == Dot(a, a)

\* a/b < c/d for a, c >= 0 and b, d > 0, by Euclid's algorithm (no products)
RECURSIVE FracLess(_, _, _, _)
FracLess(a, b, c, d) ==
    IF a \div b # c \div d THEN a \div b < c \div d
    ELSE IF c % d = 0 THEN FALSE
    ELSE IF a % b = 0 THEN TRUE
    ELSE FracLess(d, c % d, b, a % b)

SimLess(x, y) ==
    IF x.num < 0 /\ y.num >= 0 THEN TRUE
    ELSE IF x.num >= 0 /\ y.num < 0 THEN FALSE
    ELSE IF x.num >= 0 THEN FracLess(x.num, x.den, y.num, y.den)
    ELSE FracLess(-y.num, y.den, -x.num, x.den)

SimEq(x, y) == ~SimLess(x, y) /\ ~SimLess(y, x)

SimGeq(x, y) == ~SimLess(x, y)

\* the product of two vectors as a similarity
Similarity(d, q) ==
    LET p == Dot(d.v, q.v)
    IN  [num |-> IF p < 0 THEN -(p * p) ELSE p * p, den |-> d.den2 * q.den2]

\* v scaled to unit L2 norm; a zero vector stays the zero vector
UnitVector(v) == [v |-> v, den2 |-> IF Norm2(v) = 0 THEN 1 ELSE Norm2(v)]

-----------------------------------------------------------------------------
(* numpy: argsort, reversal, slicing *)

\* position of row i in the order the sort leaves equal keys in
TieRank(tie, i) == CHOOSE r \in 1..Len(tie) : tie[r] = i

\* i comes before j in np.argsort(sims): ascending similarity; the default
\* kind ("quicksort") is not stable, so the order of equal keys is the
\* build's, given by tie
SortsBefore(sims, tie, i, j) ==
    \/ SimLess(sims[i], sims[j])
    \/ SimEq(sims[i], sims[j]) /\ TieRank(tie, i) < TieRank(tie, j)

RECURSIVE SortRest(_, _, _)
SortRest(sims, tie, left) ==
    IF left = {} THEN <<>>
    ELSE LET first == CHOOSE i \in left :
                        \A j \in left \ {i} : SortsBefore(sims, tie, i, j)
         IN  <<first>> \o SortRest(sims, tie, left \ {first})

\* np.argsort(sims): positions 1..N (kb_id = position - 1)
argsort(sims, tie) == SortRest(sims, tie, 1..Len(sims))

\* a[::-1]
Reversed(a) == [i \in 1..Len(a) |-> a[Len(a) + 1 - i]]

\* a[:k] as Python slices: a negative k counts from the end
PySliceTo(a, k) ==
    IF k >= 0 THEN SubSeq(a, 1, IF k < Len(a) THEN k ELSE Len(a))
    ELSE SubSeq(a, 1, IF Len(a) + k > 0 THEN Len(a) + k ELSE 0)

\* (mutant) the reversal forgotten
TopIdxAscending(sims, tie, top_k) == PySliceTo(argsort(sims, tie), top_k)

\* (mutant) the slice one short
TopIdxOneShort(sims, tie, top_k) == PySliceTo(Reversed(argsort(sims, tie)), top_k - 1)

\* idx = np.argsort(sims)[::-1][:top_k]

TopIdx(sims, tie, top_k) == PySliceTo(Reversed(argsort(sims, tie)), top_k)

\* (mutant) kb_id counted from 1
AnnotatedFromOne(df, sims, idx) ==
    DataFrame([r \in 1..Len(idx) |->
        [title      |-> df[idx[r]].title,
         text       |-> df[idx[r]].text,
         similarity |-> sims[idx[r]],
         kb_id      |-> idx[r]]])

\* out = df.iloc[idx].copy(); out["similarity"] = sims[idx]; out["kb_id"] = idx
Annotated(df, sims, idx) ==
    DataFrame([r \in 1..Len(idx) |->
        [title      |-> df[idx[r]].title,
         text       |-> df[idx[r]].text,
         similarity |-> sims[idx[r]],
         kb_id      |-> idx[r] - 1]])

-----------------------------------------------------------------------------
(* Text analysis *)

\* maximal runs of non-space characters, in order
RECURSIVE SplitWords(_, _, _)
SplitWords(s, cur, acc) ==
    IF s = <<>> THEN (IF cur = <<>> THEN acc ELSE Append(acc, cur))
    ELSE IF IsSpace(Head(s))
         THEN SplitWords(Tail(s), <<>>, IF cur = <<>> THEN acc ELSE Append(acc, cur))
    ELSE SplitWords(Tail(s), Append(cur, Head(s)), acc)

Words(s) == SplitWords(s, <<>>, <<>>)

\* s.fillna("").astype(str) on one cell
safe_text(cell) == IF cell = NaN THEN EmptyStr ELSE cell

safe_text_series(df, col) ==
    [i \in 1..Len(df) |-> safe_text(IF col = "title" THEN df[i].title ELSE df[i].text)]

\* the words of sklearn's English stop list that the texts of the model can hold
StopWords == {<<"a", "n">>, <<"t", "h", "e">>}

\* TfidfVectorizer's analyzer: tokens of two or more word characters
\* (token_pattern (?u)\b\w\w+\b), stop words removed
Analyze(s) == SelectSeq(Words(s), LAMBDA w : Len(w) >= 2 /\ w \notin StopWords)

Count(term, tokens) == Len(SelectSeq(tokens, LAMBDA t : t = term))

\* every term the texts of the model can hold, in sorted order (the order
\* of the columns of the fitted matrix)
TermOrder ==
    << <<"a", "b">>, <<"c", "d">>, <<"n", "a", "n">>, <<"z", "z">> >>

\* vocabulary_ after fit: the terms that occur in some document
Vocabulary(texts) ==
    SelectSeq(TermOrder,
              LAMBDA t : \E i \in 1..Len(texts) : Count(t, Analyze(texts[i])) > 0)

DocFreq(term, texts) ==
    Cardinality({i \in 1..Len(texts) : Count(term, Analyze(texts[i])) > 0})

\* 10 * (ln((1 + n) / (1 + df)) + 1), rounded: smooth_idf of n documents,
\* row n, column df
IdfTable ==
    << <<10>>,
       <<14, 10>>,
       <<17, 13, 10>>,
       <<19, 15, 12, 10>>,
       <<21, 17, 14, 12, 10>>,
       <<23, 18, 16, 13, 12, 10>> >>

Idf(vocab, texts) ==
    [k \in 1..Len(vocab) |-> IdfTable[Len(texts)][DocFreq(vocab[k], texts)]]

\* (mutant) norm=None: the rows of the matrix are not scaled to unit length
TfidfVectorUnnormalized(vocab, idf, s) ==
    [v |-> [k \in 1..Len(vocab) |-> Count(vocab[k], Analyze(s)) * idf[k]], den2 |-> 1]

\* one row of vectorizer.transform: tf * idf, then norm="l2"
TfidfVector(vocab, idf, s) ==
    UnitVector([k \in 1..Len(vocab) |-> Count(vocab[k], Analyze(s)) * idf[k]])

-----------------------------------------------------------------------------
(* The pretrained encoder and its tokenizer (weights outside the repository):
   a context-free model of last_hidden_state, one vector per token *)

CLS == <<"[CLS]">>

SEP == <<"[SEP]">>

PAD == <<"[PAD]">>

HiddenState(token) ==
    CASE token = <<"a", "b">>      -> <<2, 0>>
      [] token = <<"c", "d">>      -> <<0, 2>>
      [] token = <<"a", "n">>      -> <<1, 1>>
      [] token = <<"z", "z">>      -> <<-1, -2>>
      [] token = CLS               -> <<1, 0>>
      [] token = SEP               -> <<0, 1>>
      [] token = PAD               -> <<-1, 1>>
      [] OTHER                     -> <<1, 2>>

\* tokenizer(text, truncation=True, max_length=max_len): the special tokens
\* count towards max_length
Tokenize(s, max_len) ==
    <<CLS>> \o SliceTo(Words(s), IF max_len >= 2 THEN max_len - 2 ELSE 0) \o <<SEP>>

MaxOf(S) == CHOOSE m \in S : \A x \in S : x <= m

\* padding=True: every sequence of the batch is padded to the longest one
Padded(tokens, width) ==
    tokens \o [i \in 1..(width - Len(tokens)) |-> PAD]

RECURSIVE SumStates(_)
SumStates(tokens) ==
    IF tokens = <<>> THEN <<0, 0>>
    ELSE LET h == HiddenState(Head(tokens))
             r == SumStates(Tail(tokens))
         IN  <<h[1] + r[1], h[2] + r[2]>>

\* emb = out.last_hidden_state.mean(dim=1): the mean over every position
\* of the padded sequence
MeanPooled(tokens) ==
    [v |-> SumStates(tokens), den2 |-> Len(tokens) * Len(tokens)]

\* one batch through tokenizer, model, mean pooling and (optionally) L2
EncodeBatch(batch, max_len, normalize) ==
    LET toks  == [i \in 1..Len(batch) |-> Tokenize(batch[i], max_len)]
        width == MaxOf({Len(toks[i]) : i \in 1..Len(batch)})
    IN  [i \in 1..Len(batch) |->
            IF normalize THEN UnitVector(MeanPooled(Padded(toks[i], width)).v)
            ELSE MeanPooled(Padded(toks[i], width))]

\* for i in range(0, len(texts), batch_size): ... ; np.vstack(vecs)
RECURSIVE EncodeFrom(_, _, _, _, _)
EncodeFrom(texts, i, batch_size, max_len, normalize) ==
    IF i > Len(texts) THEN <<>>
    ELSE EncodeBatch(SubSeq(texts, i,
                            IF i + batch_size - 1 < Len(texts)
                            THEN i + batch_size - 1 ELSE Len(texts)),
                     max_len, normalize)
         \o EncodeFrom(texts, i + batch_size, batch_size, max_len, normalize)

\* range(0, len(texts), batch_size) raises ValueError for a step of 0
EncodeRaises(texts, batch_size) == texts # <<>> /\ batch_size = 0

\* EmbeddingIndex._encode_texts: np.zeros((0, 0)) for no texts, and for a
\* negative batch_size, whose range is empty and leaves vecs empty
encode_texts(texts, batch_size, max_len, normalize) ==
    IF texts = <<>> THEN <<>>
    ELSE IF batch_size <= 0 THEN <<>>
    ELSE EncodeFrom(texts, 1, batch_size, max_len, normalize)

-----------------------------------------------------------------------------
(* Index objects *)

\* RAG_INDEX = None
NoIndex ==
    [backend |-> "none", df |-> <<>>, matrix |-> <<>>, vocabulary |-> <<>>,
     idf |-> <<>>, kb_size |-> 0, max_len |-> 0, batch_size |-> 0,
     normalize |-> FALSE, embedding_dim |-> 0]

Raised(msg) == [raised |-> msg, index |-> NoIndex]

Returned(index) == [raised |-> "none", index |-> index]

\* (mutant) the rows are indexed in an order that changes from one build of
\* the process to the next
TfidfIndexUnordered(df) ==
    LET rows  == IF effects.index_builds = 0 THEN df ELSE Reversed(df)
        texts == safe_text_series(rows, "text")
        vocab == Vocabulary(texts)
        idf   == Idf(vocab, texts)
    IN  IF vocab = <<>>
        THEN Raised("ValueError: empty vocabulary; perhaps the documents only contain stop words")
        ELSE Returned(
               [backend |-> "tfidf", df |-> rows,
                matrix |-> [i \in 1..Len(texts) |-> TfidfVector(vocab, idf, texts[i])],
                vocabulary |-> vocab, idf |-> idf, kb_size |-> Len(rows),
                max_len |-> 0, batch_size |-> 0, normalize |-> FALSE,
                embedding_dim |-> 0])

\* TfidfIndex.__init__: fit_transform raises on a corpus with no term left
TfidfIndex(df) ==
    LET texts == safe_text_series(df, "text")
        vocab == Vocabulary(texts)
        idf   == Idf(vocab, texts)
    IN  IF vocab = <<>>
        THEN Raised("ValueError: empty vocabulary; perhaps the documents only contain stop words")
        ELSE Returned(
               [backend |-> "tfidf", df |-> df,
                matrix |-> [i \in 1..Len(texts) |-> TfidfVector(vocab, idf, texts[i])],
                vocabulary |-> vocab, idf |-> idf, kb_size |-> Len(df),
                max_len |-> 0, batch_size |-> 0, normalize |-> FALSE,
                embedding_dim |-> 0])

\* (mutant) any non-empty value enables, as bool(v) would
truthyNonEmpty(v) == v # ""

\* _truthy, on a value already stripped and lower-cased
truthy(v) == v \in {"1", "true", "t", "yes", "y", "on"}

\* EmbeddingIndex.__init__, the tokenizer and the model loaded
EmbeddingIndex(df, e) ==
    LET texts  == safe_text_series(df, "text")
        matrix == encode_texts(texts, e.RAG_EMBED_BATCH_SIZE, e.RAG_EMBED_MAX_LENGTH,
                               truthy(e.RAG_EMBED_NORMALIZE))
    IN  IF EncodeRaises(texts, e.RAG_EMBED_BATCH_SIZE)
        THEN Raised("ValueError: range() arg 3 must not be zero")
        ELSE Returned(
          [backend |-> "embeddings", df |-> df, matrix |-> matrix,
           vocabulary |-> <<>>, idf |-> <<>>, kb_size |-> Len(df),
           max_len |-> e.RAG_EMBED_MAX_LENGTH, batch_size |-> e.RAG_EMBED_BATCH_SIZE,
           normalize |-> truthy(e.RAG_EMBED_NORMALIZE),
           embedding_dim |-> IF matrix = <<>> THEN 0 ELSE Len(matrix[1].v)])

-----------------------------------------------------------------------------
(* build_index_from_env.  The result carries what the call did: whether it
   raised, the index returned, and the reads of the corpus, loads of the
   model and constructions of a backend it performed. *)

\* (mutant) the table read again for the backend: once to validate the
\* columns, once to build
BuildResultRereading(r, reads, loads, builds) ==
    [raised |-> r.raised, index |-> r.index,
     corpus_reads |-> reads + builds, model_loads |-> loads, index_builds |-> builds]

BuildResult(r, reads, loads, builds) ==
    [raised |-> r.raised, index |-> r.index,
     corpus_reads |-> reads, model_loads |-> loads, index_builds |-> builds]

\* kb_path = os.getenv("RAG_KB_PATH"); if not kb_path
PathAbsent(kb_path) == kb_path \in {"unset", ""}

\* (mutant) "and" where the code has "or"
ColumnsMissingBoth(columns) == "title" \notin columns /\ "text" \notin columns

\* title_col not in df.columns or text_col not in df.columns
ColumnsMissing(columns) == "title" \notin columns \/ "text" \notin columns

\* the part of build_index_from_env after the table is loaded
BuildBackend(e, w) ==
    IF e.RAG_MODE = "embeddings"
    THEN IF w.model_loadable
         THEN BuildResult(EmbeddingIndex(w.kb_rows, e), 1, 1, 1)
         ELSE BuildResult(Raised("OSError: cannot load the model"), 1, 1, 1)
    ELSE BuildResult(TfidfIndex(w.kb_rows), 1, 0, 1)

build_index_from_env(e, w) ==
    IF ~truthy(e.RAG_ENABLED)
    THEN BuildResult(Returned(NoIndex), 0, 0, 0)
    ELSE IF PathAbsent(e.RAG_KB_PATH)
    THEN BuildResult(Raised("ValueError: RAG_KB_PATH not set"), 0, 0, 0)
    ELSE IF ~w.kb_readable
    THEN BuildResult(Raised("OSError: cannot read the KB"), 1, 0, 0)
    ELSE IF ColumnsMissing(w.kb_columns)
    THEN BuildResult(Raised("ValueError: KB must contain columns"), 1, 0, 0)
    ELSE BuildBackend(e, w)

-----------------------------------------------------------------------------
(* retrieve *)

\* cosine_similarity(q_vec, self.matrix)[0]
TfidfSims(index, query) ==
    LET q_vec == TfidfVector(index.vocabulary, index.idf, query)
    IN  [i \in 1..Len(index.matrix) |-> Similarity(index.matrix[i], q_vec)]

\* (mutant) the query encoded with the default maximum length, not the
\* one of the index
EmbeddingSimsDefaultLength(index, query) ==
    LET q_emb == EncodeBatch(<<query>>, DefaultMaxLength, index.normalize)[1]
    IN  [i \in 1..Len(index.matrix) |-> Similarity(index.matrix[i], q_emb)]

\* np.dot(self.matrix, q_emb)
EmbeddingSims(index, query) ==
    LET q_emb == EncodeBatch(<<query>>, index.max_len, index.normalize)[1]
    IN  [i \in 1..Len(index.matrix) |-> Similarity(index.matrix[i], q_emb)]

Sims(index, query) ==
    IF index.backend = "tfidf" THEN TfidfSims(index, query)
    ELSE EmbeddingSims(index, query)

\* TfidfIndex.retrieve
TfidfRetrieve(index, query, top_k, tie) ==
    LET sims == TfidfSims(index, query)
    IN  Annotated(index.df, sims, TopIdx(sims, tie, top_k))

\* EmbeddingIndex.retrieve
EmbeddingRetrieve(index, query, top_k, tie) ==
    IF index.matrix = <<>> THEN DataFrame(<<>>)
    ELSE LET sims == EmbeddingSims(index, query)
         IN  Annotated(index.df, sims, TopIdx(sims, tie, top_k))

\* retrieve_kb(query, index, top_k): index.retrieve(query, top_k)
retrieve_kb(query, index, top_k, tie) ==
    IF index.backend = "tfidf" THEN TfidfRetrieve(index, query, top_k, tie)
    ELSE EmbeddingRetrieve(index, query, top_k, tie)

\* the column labels of the frame retrieve returns, for a table with the
\* given columns: EmbeddingIndex.retrieve returns self.df.head(0).copy()
\* for an empty matrix, before the two columns are added
AnnotationColumns == {"similarity", "kb_id"}

RetrieveColumns(index, columns) ==
    IF index.backend = "embeddings" /\ index.matrix = <<>> THEN columns
    ELSE columns \cup AnnotationColumns

\* a returned frame with its column labels
WithColumns(df, columns) ==
    [isNone |-> df.isNone, rows |-> df.rows, columns |-> columns]

-----------------------------------------------------------------------------
(* query_combined_prompt: the note text handed to the prompt template *)

PatientNoteMarker ==
    <<"\n", "\n", "P", "A", "T", "I", "E", "N", "T", " ",
      "N", "O", "T", "E", ":", "\n">>

\* the body under "if RAG_INDEX is not None"
Augmented(note, index, e, tie) ==
    LET snips     == retrieve_kb(note, index, e.RAG_TOP_K, tie)
        rag_block == format_rag_context(snips, e.RAG_MAX_CHARS).out
    IN  [retrieved  |-> TRUE,
         formatted  |-> TRUE,
         failed     |-> FALSE,
         raised     |-> FALSE,
         snips      |-> snips,
         rag_block  |-> rag_block,
         note_text  |-> IF rag_block # EmptyStr
                        THEN rag_block \o PatientNoteMarker \o note
                        ELSE note,
         audit_none |-> rag_block = EmptyStr,
         audit_text |-> SliceTo(rag_block, DefaultAuditMax)]

NotAugmented(note) ==
    [retrieved |-> FALSE, formatted |-> FALSE, failed |-> FALSE, raised |-> FALSE,
     snips |-> None, rag_block |-> EmptyStr,
     note_text |-> note, audit_none |-> TRUE, audit_text |-> EmptyStr]

\* the calls inside the try that can raise, and "none" when neither does
Faults == {"none", "retrieve", "format"}

\* (mutant) no except clause: the exception leaves query_combined_prompt
RetrievalFailedPropagates(note, fault) ==
    [retrieved |-> TRUE, formatted |-> fault = "format", failed |-> TRUE,
     raised |-> TRUE, snips |-> None, rag_block |-> EmptyStr,
     note_text |-> note, audit_none |-> TRUE, audit_text |-> EmptyStr]

\* the body under the if when retrieve_kb or format_rag_context raises:
\* except Exception as e: logger.warning(...); note_text and rag_audit_text
\* are still those set before the try
RetrievalFailed(note, fault) ==
    [retrieved |-> TRUE, formatted |-> fault = "format", failed |-> TRUE,
     raised |-> FALSE, snips |-> None, rag_block |-> EmptyStr,
     note_text |-> note, audit_none |-> TRUE, audit_text |-> EmptyStr]

\* if RAG_INDEX is not None
Gate(index) == index.backend # "none"

\* fault names the call that raises for this note, if any
query_combined_prompt(note, index, e, tie, fault) ==
    IF ~Gate(index) THEN NotAugmented(note)
    ELSE IF fault = "none" THEN Augmented(note, index, e, tie)
    ELSE RetrievalFailed(note, fault)

-----------------------------------------------------------------------------
(* Data of the model *)

T == <<"T">>

AB == <<"a", "b">>

CD == <<"c", "d">>

ABCD == <<"a", "b", " ", "c", "d">>

ZZ == <<"z", "z">>

Blank == <<" ">>

Min(a, b) == IF a < b THEN a ELSE b

SeqsUpTo(S, n) == UNION {[1..k -> S] : k \in 0..n}

Perms(n) == {p \in [1..n -> 1..n] : \A i, j \in 1..n : p[i] = p[j] => i = j}

Identity(n) == [i \in 1..n |-> i]

\* entries of a knowledge base: a titled entry, an entry with a missing
\* title, an entry whose cells are blank
KbEntries ==
    {[title |-> T, text |-> AB], [title |-> NaN, text |-> CD],
     [title |-> Blank, text |-> Blank]}

Notes == {AB, ABCD, EmptyStr, ZZ}

NoEffects ==
    [corpus_reads |-> 0, model_loads |-> 0, index_builds |-> 0,
     retrieve_calls |-> 0, format_calls |-> 0, llm_calls |-> 0]

NoCall == [fn |-> "none"]

-----------------------------------------------------------------------------
(* The process: import of patient_risk_pipeline, then one
   query_combined_prompt per high-risk note *)

\* RAG_INDEX = None; try: RAG_INDEX = build_index_from_env()
\* except Exception as e: logger.warning(...); RAG_INDEX = None
ImportModule ==
    /\ pc = "import"
    /\ LET b == build_index_from_env(env, world)
       IN  /\ RAG_INDEX' = (IF b.raised = "none" THEN b.index ELSE NoIndex)
           /\ rag_warning' = b.raised
           /\ effects' = [effects EXCEPT !.corpus_reads = @ + b.corpus_reads,
                                         !.model_loads  = @ + b.model_loads,
                                         !.index_builds = @ + b.index_builds]
    /\ pc' = "run"
    /\ UNCHANGED <<env, world, arg, ret>>

QueryCombinedPrompt ==
    /\ pc = "run"
    /\ effects.llm_calls < MaxNotes
    /\ \E note \in Notes, fault \in Faults :
         LET r == query_combined_prompt(note, RAG_INDEX, env, world.tie, fault)
         IN  /\ arg' = [fn |-> "query_combined_prompt", note |-> note]
             /\ ret' = r
             /\ effects' = [effects EXCEPT
                              !.retrieve_calls = @ + (IF r.retrieved THEN 1 ELSE 0),
                              !.format_calls   = @ + (IF r.formatted THEN 1 ELSE 0),
                              !.llm_calls      = @ + (IF r.raised THEN 0 ELSE 1)]
             /\ pc' = IF r.raised THEN "raised" ELSE "run"
    /\ UNCHANGED <<env, world, RAG_INDEX, rag_warning>>

Envs(enabled, paths, modes, topks, budgets, normalizes, batches, maxlens) ==
    [RAG_ENABLED : enabled, RAG_KB_PATH : paths, RAG_MODE : modes,
     RAG_TOP_K : topks, RAG_MAX_CHARS : budgets,
     RAG_EMBED_NORMALIZE : normalizes, RAG_EMBED_BATCH_SIZE : batches,
     RAG_EMBED_MAX_LENGTH : maxlens]

Worlds(readable, columns, corpora, loadable) ==
    UNION {[kb_readable : readable, kb_columns : columns, kb_rows : {c},
            model_loadable : loadable, tie : Perms(Len(c))] : c \in corpora}

Init ==
    /\ env \in Envs({"true", "false"}, {"unset", "", "kb.csv"}, {"tfidf", "embeddings"},
                    {DefaultTopK}, {MaxChars, DefaultMaxChars}, {"true"},
                    {DefaultBatchSize}, {DefaultMaxLength})
    /\ world \in Worlds(BOOLEAN,
                        {{"title", "text"}, {"title", "source"}, {"text"}},
                        SeqsUpTo(KbEntries, 2), BOOLEAN)
    /\ pc = "import"
    /\ RAG_INDEX = NoIndex
    /\ rag_warning = "none"
    /\ effects = NoEffects
    /\ arg = NoCall
    /\ ret = NoCall

Next == ImportModule \/ QueryCombinedPrompt

Spec == Init /\ [][Next]_vars

-----------------------------------------------------------------------------
(* retrieve_kb called on the index built at import *)

RetrieveKb ==
    /\ pc = "run"
    /\ Gate(RAG_INDEX)
    /\ \E query \in Notes, top_k \in 0..MaxTopK :
         /\ arg' = [fn |-> "retrieve_kb", query |-> query, top_k |-> top_k]
         /\ ret' = WithColumns(retrieve_kb(query, RAG_INDEX, top_k, world.tie),
                               RetrieveColumns(RAG_INDEX, world.kb_columns))
    /\ effects' = [effects EXCEPT !.retrieve_calls = @ + 1]
    /\ pc' = "returned"
    /\ UNCHANGED <<env, world, RAG_INDEX, rag_warning>>

InitRetrieve ==
    /\ env \in Envs({"true"}, {"kb.csv"}, {"tfidf", "embeddings"},
                    {DefaultTopK}, {DefaultMaxChars}, {"true", "false"},
                    {2}, {DefaultMaxLength})
    /\ world \in Worlds({TRUE}, {{"title", "text"}},
                        SeqsUpTo({[title |-> T, text |-> AB], [title |-> T, text |-> CD],
                                  [title |-> T, text |-> Blank]}, MaxRows),
                        {TRUE})
    /\ pc = "import"
    /\ RAG_INDEX = NoIndex
    /\ rag_warning = "none"
    /\ effects = NoEffects
    /\ arg = NoCall
    /\ ret = NoCall

NextRetrieve == ImportModule \/ RetrieveKb

SpecRetrieve == InitRetrieve /\ [][NextRetrieve]_vars

-----------------------------------------------------------------------------
(* format_rag_context called on any DataFrame *)

\* rows whose blocks are 6, 8, 100 and 200 characters long, and a row
\* with a blank title and a blank text
FormatRows ==
    {[title |-> T, text |-> AB], [title |-> NaN, text |-> CD],
     [title |-> Blank, text |-> Blank],
     [title |-> T, text |-> Rep("x", 96)], [title |-> T, text |-> Rep("x", 196)]}

Budgets == (0..MaxChars) \cup {50, 250, DefaultMaxChars}

FormatRagContext ==
    /\ pc = "call"
    /\ arg.fn = "format_rag_context"
    /\ ret' = format_rag_context(arg.df, arg.max_chars)
    /\ effects' = [effects EXCEPT !.format_calls = @ + 1]
    /\ pc' = "returned"
    /\ UNCHANGED <<env, world, RAG_INDEX, rag_warning, arg>>

InitFormat ==
    /\ env \in Envs({"false"}, {"unset"}, {"tfidf"}, {DefaultTopK}, {DefaultMaxChars},
                    {"true"}, {DefaultBatchSize}, {DefaultMaxLength})
    /\ world \in Worlds({TRUE}, {{"title", "text"}}, {<<>>}, {TRUE})
    /\ pc = "call"
    /\ RAG_INDEX = NoIndex
    /\ rag_warning = "none"
    /\ effects = NoEffects
    /\ arg \in [fn : {"format_rag_context"},
                df : {None} \cup {DataFrame(rows) : rows \in SeqsUpTo(FormatRows, MaxRows)},
                max_chars : Budgets]
    /\ ret = NoCall

NextFormat == FormatRagContext

SpecFormat == InitFormat /\ [][NextFormat]_vars

-----------------------------------------------------------------------------
(* Claims about format_rag_context (SpecFormat) *)

FormatReturned == pc = "returned" /\ arg.fn = "format_rag_context"

\* a row whose title and text are both blank once stripped
BlankRow(row) == strip(str(row.title)) = <<>> /\ strip(str(row.text)) = <<>>

\* the block a row renders to: "[title]", a newline, the text
EntryBlock(row) ==
    strip(<<"[">> \o strip(str(row.title)) \o <<"]", "\n">> \o strip(str(row.text)))

NotBlank(row) == ~BlankRow(row)

\* total length of the blocks of rows 1..i, the blank rows counted or not
RECURSIVE BlockChars(_, _, _)
BlockChars(rows, i, countBlank) ==
    IF i = 0 THEN 0
    ELSE (IF countBlank \/ NotBlank(rows[i]) THEN Len(EntryBlock(rows[i])) ELSE 0)
         + BlockChars(rows, i - 1, countBlank)

KeptPositions == {ret.kept[k].pos : k \in 1..Len(ret.kept)}

\* the rows that must appear: not blank, and fitting with the non-blank rows before
DueRows(rows, max_chars) ==
    {i \in 1..Len(rows) :
        NotBlank(rows[i]) /\ BlockChars(rows, i, FALSE) <= max_chars}

RECURSIVE BlocksOf(_, _, _)
BlocksOf(rows, i, due) ==
    IF i > Len(rows) THEN <<>>
    ELSE (IF i \in due THEN <<EntryBlock(rows[i])>> ELSE <<>>)
         \o BlocksOf(rows, i + 1, due)

\* C4 (as amended): rows whose title and text are both blank render no block
\* and are passed over; among the other rows, a row's block is in the output
\* if and only if it and every block before it fit cumulatively within
\* max_chars, so the included rows are a prefix of the non-blank rows, and
\* the output is the header followed by those blocks, each whole.
C4_PrefixOfNonBlankWithinBudget ==
    (FormatReturned /\ ~arg.df.isNone) =>
        LET due == DueRows(arg.df.rows, arg.max_chars)
        IN  /\ KeptPositions = due
            /\ \A i \in due : \A j \in 1..i : NotBlank(arg.df.rows[j]) => j \in due
            /\ ret.out = IF due = {} THEN EmptyStr
                         ELSE ContextHeader
                              \o join(BlockSeparator, BlocksOf(arg.df.rows, 1, due))

\* C4 witness: three blocks of 100 characters with max_chars = 250 give
\* exactly the first two
C4_Witness ==
    /\ FormatReturned
    /\ ~arg.df.isNone
    /\ Len(arg.df.rows) = 3
    /\ \A i \in 1..3 : Len(EntryBlock(arg.df.rows[i])) = 100
    /\ arg.max_chars = 250
    /\ KeptPositions = {1, 2}

\* C4 (as stated): every ranked entry's block is included if and only if it
\* and every block ranked before it fit cumulatively within max_chars, and
\* the included entries are a prefix of the ranked results.
C4_EveryEntryIffFits ==
    (FormatReturned /\ ~arg.df.isNone) =>
        /\ \A i \in 1..Len(arg.df.rows) :
              i \in KeptPositions <=> BlockChars(arg.df.rows, i, TRUE) <= arg.max_chars
        /\ \A i \in KeptPositions : \A j \in 1..i : j \in KeptPositions

\* the first row that renders a block, 0 when there is none
FirstNonBlank(rows) ==
    IF \E i \in 1..Len(rows) : NotBlank(rows[i])
    THEN CHOOSE i \in 1..Len(rows) :
            NotBlank(rows[i]) /\ \A j \in 1..(i - 1) : BlankRow(rows[j])
    ELSE 0

\* C5: the result is the empty string when the retrieval result is None or
\* has no rows, and when the highest-ranked block alone is longer than
\* max_chars (never a fragment cut to max_chars).
C5_EmptyWhenNothingFits ==
    FormatReturned =>
        /\ (arg.df.isNone \/ arg.df.rows = <<>>) => ret.out = EmptyStr
        /\ (/\ FirstNonBlank(arg.df.rows) > 0
            /\ Len(EntryBlock(arg.df.rows[FirstNonBlank(arg.df.rows)])) > arg.max_chars)
           => ret.out = EmptyStr

\* C5 witness: a first block of 200 characters with max_chars = 50
C5_Witness ==
    /\ FormatReturned
    /\ ~arg.df.isNone
    /\ Len(arg.df.rows) >= 1
    /\ Len(EntryBlock(arg.df.rows[1])) = 200
    /\ arg.max_chars = 50
    /\ ret.out = EmptyStr

\* C6 (as stated): the returned string, header, blocks and separators
\* together, is never longer than max_chars.
C6_OutputWithinBudget ==
    FormatReturned => Len(ret.out) <= arg.max_chars

-----------------------------------------------------------------------------
(* Claims about retrieve (SpecRetrieve) *)

RetrieveReturned == pc = "returned" /\ arg.fn = "retrieve_kb"

CorpusSize == Len(world.kb_rows)

ReturnedIds == {ret.rows[r].kb_id : r \in 1..Len(ret.rows)}

\* similarity of the corpus entry with row id k to the query of the call
EntrySimilarity(k) == Sims(RAG_INDEX, arg.query)[k + 1]

\* C1: for either backend, retrieve on an index over N entries returns
\* exactly min(top_k, N) rows; when top_k is N or more, the whole corpus is
\* returned, each entry exactly once.
C1_TopKBound ==
    RetrieveReturned =>
        /\ Len(ret.rows) = Min(arg.top_k, CorpusSize)
        /\ \A r, q \in 1..Len(ret.rows) : ret.rows[r].kb_id = ret.rows[q].kb_id => r = q
        /\ arg.top_k >= CorpusSize => ReturnedIds = 0..(CorpusSize - 1)

\* C1 witness: a call asking for more rows than the corpus has
C1_Witness ==
    /\ RetrieveReturned
    /\ CorpusSize >= 2
    /\ arg.top_k > CorpusSize
    /\ Len(ret.rows) = CorpusSize

\* C2: the returned rows are in descending order of similarity, and no
\* corpus entry left out of the result has a similarity strictly greater
\* than a returned one.
C2_DescendingTopScores ==
    RetrieveReturned =>
        /\ \A r \in 1..(Len(ret.rows) - 1) :
              SimGeq(ret.rows[r].similarity, ret.rows[r + 1].similarity)
        /\ \A r \in 1..Len(ret.rows) : \A k \in (0..(CorpusSize - 1)) \ ReturnedIds :
              ~SimLess(ret.rows[r].similarity, EntrySimilarity(k))

\* C2 witness: a result with two different scores that leaves an entry out
C2_Witness ==
    /\ RetrieveReturned
    /\ Len(ret.rows) >= 2
    /\ Len(ret.rows) < CorpusSize
    /\ SimLess(ret.rows[2].similarity, ret.rows[1].similarity)
    /\ \E k \in (0..(CorpusSize - 1)) \ ReturnedIds :
          SimLess(EntrySimilarity(k), ret.rows[Len(ret.rows)].similarity)

\* C3 (as stated): entries of equal similarity are selected and ordered by
\* original corpus order: among tied entries the smaller corpus position is
\* ranked first, and is the one kept when top_k cuts through the tie.
C3_TiesInCorpusOrder ==
    RetrieveReturned =>
        /\ \A r \in 1..(Len(ret.rows) - 1) :
              SimEq(ret.rows[r].similarity, ret.rows[r + 1].similarity)
                  => ret.rows[r].kb_id < ret.rows[r + 1].kb_id
        /\ \A r \in 1..Len(ret.rows) : \A k \in (0..(CorpusSize - 1)) \ ReturnedIds :
              SimEq(ret.rows[r].similarity, EntrySimilarity(k))
                  => ret.rows[r].kb_id < k

-----------------------------------------------------------------------------
(* Claims about the build at import and the pipeline (Spec) *)

Imported == pc # "import"

PromptBuilt == arg.fn = "query_combined_prompt"

RequiredColumns == {"title", "text"}

\* C7: with retrieval disabled, build_index_from_env returns None without
\* reading the corpus path or loading a model, and no retrieve or format
\* call is ever made: every recommendation prompt holds the original note
\* text alone.
C7_DisabledIsNoOp ==
    env.RAG_ENABLED = "false" =>
        /\ RAG_INDEX = NoIndex
        /\ rag_warning = "none"
        /\ effects.corpus_reads = 0
        /\ effects.model_loads = 0
        /\ effects.index_builds = 0
        /\ effects.retrieve_calls = 0
        /\ effects.format_calls = 0
        /\ PromptBuilt => (ret.note_text = arg.note /\ ret.audit_none /\ ~ret.retrieved)

\* C7 witness: retrieval disabled, a corpus path set that would raise if
\* read, and a recommendation prompt built
C7_Witness ==
    /\ env.RAG_ENABLED = "false"
    /\ env.RAG_KB_PATH = "kb.csv"
    /\ ~world.kb_readable
    /\ Imported
    /\ PromptBuilt
    /\ effects.llm_calls = MaxNotes

\* C8 (as stated): if index construction fails while retrieval is enabled,
\* the process aborts at startup: it never goes on to process notes with
\* retrieval turned off.
C8_BuildFailureAborts ==
    rag_warning # "none" => effects.llm_calls = 0

\* C9: with retrieval enabled, build_index_from_env fails with a
\* configuration error and returns no index when the corpus path is absent
\* (the corpus is not read) or when the loaded table lacks the title or the
\* text column (no backend is constructed).
C9_ConfigurationErrors ==
    (Imported /\ env.RAG_ENABLED = "true") =>
        /\ env.RAG_KB_PATH \in {"unset", ""} =>
              /\ rag_warning = "ValueError: RAG_KB_PATH not set"
              /\ RAG_INDEX = NoIndex
              /\ effects.corpus_reads = 0
              /\ effects.index_builds = 0
        /\ (/\ env.RAG_KB_PATH = "kb.csv"
            /\ world.kb_readable
            /\ ~(RequiredColumns \subseteq world.kb_columns)) =>
              /\ rag_warning = "ValueError: KB must contain columns"
              /\ RAG_INDEX = NoIndex
              /\ effects.corpus_reads = 1
              /\ effects.index_builds = 0
              /\ effects.model_loads = 0

\* C9 witness: the table was read and lacks the text column
C9_Witness ==
    /\ Imported
    /\ env.RAG_ENABLED = "true"
    /\ env.RAG_KB_PATH = "kb.csv"
    /\ world.kb_readable
    /\ "text" \notin world.kb_columns
    /\ effects.corpus_reads = 1

\* C10 (as stated): building an index over a zero-row corpus that has the
\* required columns succeeds for whichever backend is configured, and every
\* retrieve call on it returns an empty result without raising.
C10_EmptyCorpusBuilds ==
    (/\ Imported
     /\ env.RAG_ENABLED = "true"
     /\ env.RAG_KB_PATH = "kb.csv"
     /\ world.kb_readable
     /\ RequiredColumns \subseteq world.kb_columns
     /\ world.model_loadable
     /\ world.kb_rows = <<>>) =>
        /\ rag_warning = "none"
        /\ RAG_INDEX.backend = env.RAG_MODE
        /\ PromptBuilt => (ret.retrieved /\ ret.snips = DataFrame(<<>>))

-----------------------------------------------------------------------------
(* Further claims about retrieve (SpecRetrieve) *)

\* C11 (as stated): lexical retrieve with an empty query text gives every
\* corpus entry similarity 0.0 and returns the first top_k corpus entries in
\* original corpus order: row ids 0, 1, ..., top_k - 1 in that order.
C11_EmptyQueryFirstEntries ==
    (RetrieveReturned /\ RAG_INDEX.backend = "tfidf" /\ arg.query = EmptyStr) =>
        /\ \A k \in 0..(CorpusSize - 1) : EntrySimilarity(k).num = 0
        /\ Len(ret.rows) = Min(arg.top_k, CorpusSize)
        /\ \A r \in 1..Len(ret.rows) :
              ret.rows[r].kb_id = r - 1 /\ ret.rows[r].similarity.num = 0

\* C15 (as stated): both backends return results of the same shape for
\* every corpus and query, an empty corpus included: the corpus columns
\* plus a similarity and a kb_id column.
C15_SameShapeEitherBackend ==
    RetrieveReturned =>
        /\ ret.columns = world.kb_columns \cup AnnotationColumns
        /\ \A r \in 1..Len(ret.rows) :
              DOMAIN ret.rows[r] = world.kb_columns \cup AnnotationColumns

\* C19: every row of a retrieve result carries as kb_id the 0-based position
\* of its entry in the loaded corpus: the kb_ids of one result are pairwise
\* distinct, each lies in 0..N-1, and the row's title, text and similarity
\* are those of the corpus entry at that position.
C19_KbIdIsCorpusPosition ==
    RetrieveReturned =>
        /\ \A r, q \in 1..Len(ret.rows) :
              ret.rows[r].kb_id = ret.rows[q].kb_id => r = q
        /\ \A r \in 1..Len(ret.rows) :
              LET k == ret.rows[r].kb_id
              IN  /\ k \in 0..(CorpusSize - 1)
                  /\ ret.rows[r].title = world.kb_rows[k + 1].title
                  /\ ret.rows[r].text = world.kb_rows[k + 1].text
                  /\ ret.rows[r].similarity = EntrySimilarity(k)

\* C19 witness: a result of two rows that are not in corpus order, taken
\* from a corpus whose entries differ
C19_Witness ==
    /\ RetrieveReturned
    /\ CorpusSize = 3
    /\ Len(ret.rows) = 2
    /\ ret.rows[1].kb_id = 2
    /\ ret.rows[2].kb_id = 0
    /\ ret.rows[1].text # ret.rows[2].text
    /\ SimLess(ret.rows[2].similarity, ret.rows[1].similarity)

-----------------------------------------------------------------------------
(* Further claims about the pipeline (Spec) *)

LoadCounters == <<effects.corpus_reads, effects.model_loads, effects.index_builds>>

\* C12: within one process the corpus load, the encoder/tokenizer load and
\* the corpus vectorization each happen at most once, all before the first
\* query; every query uses that same index object, and no query reloads the
\* corpus, reloads a model or rebuilds the matrix.
C12_LoadsOnceBeforeQueries ==
    /\ [](/\ effects.corpus_reads <= 1
          /\ effects.model_loads <= 1
          /\ effects.index_builds <= 1
          /\ pc = "import" => (effects.retrieve_calls = 0 /\ effects.llm_calls = 0))
    /\ [][pc = "run" => (RAG_INDEX' = RAG_INDEX /\ LoadCounters' = LoadCounters)]_vars

\* C12 witness: an embeddings index, loaded and vectorized once, has served
\* two notes
C12_Witness ==
    /\ RAG_INDEX.backend = "embeddings"
    /\ LoadCounters = <<1, 1, 1>>
    /\ effects.retrieve_calls = MaxNotes
    /\ PromptBuilt
    /\ ~ret.failed

\* C13: if retrieval or context formatting raises for one note,
\* query_combined_prompt catches the failure, injects no context (the prompt
\* holds the original note text and the recorded context stays empty), still
\* makes the LLM call for that note, and the other notes go on being
\* processed.
C13_RetrievalFailureFallsBack ==
    [][(pc = "run" /\ ret'.failed) =>
          /\ ret'.note_text = arg'.note
          /\ ret'.rag_block = EmptyStr
          /\ ret'.audit_none
          /\ ~ret'.raised
          /\ effects'.llm_calls = effects.llm_calls + 1
          /\ pc' = "run"]_vars

\* C13 witness: a note whose retrieval raised, and a note processed with
\* context after it
C13_Witness ==
    /\ PromptBuilt
    /\ ~ret.failed
    /\ ret.rag_block # EmptyStr
    /\ effects.retrieve_calls = 2
    /\ effects.format_calls = 1
    /\ effects.llm_calls = 2

-----------------------------------------------------------------------------
(* retrieve called by several callers on the one index, their steps
   interleaved.  Here arg and ret hold one entry per caller: arg[c] is the
   frame of caller c's call of retrieve (its arguments and locals), ret[c]
   what the call returned. *)

MaxCallers == 2

Callers == 1..MaxCallers

IdleCall ==
    [stage |-> "idle", overlap |-> FALSE, query |-> EmptyStr, top_k |-> 0,
     sims |-> <<>>, idx |-> <<>>, out |-> <<>>]

\* some other caller is inside retrieve
Overlapping(c) ==
    \E d \in Callers \ {c} : arg[d].stage \in {"called", "scored", "copied"}

\* self.df.iloc[idx].copy()
CopyRows(df, idx) == [r \in 1..Len(idx) |-> df[idx[r]]]

\* out["similarity"] = sims[idx]; out["kb_id"] = idx, on the copy
AnnotateCopy(out, sims, idx) ==
    DataFrame([r \in 1..Len(idx) |->
        [title      |-> out[r].title,
         text       |-> out[r].text,
         similarity |-> sims[idx[r]],
         kb_id      |-> idx[r] - 1]])

\* (mutant) no copy taken: the similarity column is written to the index's
\* own table
IndexAnnotatedInPlace(index, sims) ==
    [index EXCEPT !.df = [i \in 1..Len(index.df) |->
                             [title      |-> index.df[i].title,
                              text       |-> index.df[i].text,
                              similarity |-> sims[i]]]]

\* the index object after a retrieve call: retrieve assigns no attribute of
\* self and writes its two columns to the copy
IndexAfterRetrieve(index, sims) == index

\* retrieve entered: q = str(query)
CallRetrieve(c) ==
    /\ pc = "run"
    /\ Gate(RAG_INDEX)
    /\ arg[c].stage = "idle"
    /\ \E query \in {AB, EmptyStr}, top_k \in 1..2 :
         arg' = [arg EXCEPT ![c] = [IdleCall EXCEPT !.stage = "called",
                                                     !.overlap = Overlapping(c),
                                                     !.query = query,
                                                     !.top_k = top_k]]
    /\ effects' = [effects EXCEPT !.retrieve_calls = @ + 1]
    /\ UNCHANGED <<env, world, pc, RAG_INDEX, rag_warning, ret>>

\* the query vector and sims; EmbeddingIndex.retrieve returns
\* self.df.head(0).copy() here when the matrix is empty
ScoreEntries(c) ==
    /\ arg[c].stage = "called"
    /\ IF RAG_INDEX.backend = "embeddings" /\ RAG_INDEX.matrix = <<>>
       THEN /\ arg' = [arg EXCEPT ![c].stage = "returned"]
            /\ ret' = [ret EXCEPT ![c] = DataFrame(<<>>)]
       ELSE /\ arg' = [arg EXCEPT ![c].stage = "scored",
                                  ![c].sims = Sims(RAG_INDEX, arg[c].query)]
            /\ UNCHANGED ret
    /\ UNCHANGED <<env, world, pc, RAG_INDEX, rag_warning, effects>>

\* idx = np.argsort(sims)[::-1][:top_k]; out = self.df.iloc[idx].copy()
SelectRows(c) ==
    /\ arg[c].stage = "scored"
    /\ LET idx == TopIdx(arg[c].sims, world.tie, arg[c].top_k)
       IN  arg' = [arg EXCEPT ![c].stage = "copied",
                              ![c].idx = idx,
                              ![c].out = CopyRows(RAG_INDEX.df, idx)]
    /\ UNCHANGED <<env, world, pc, RAG_INDEX, rag_warning, effects, ret>>

\* out["similarity"] = sims[idx]; out["kb_id"] = idx; return out
AnnotateRows(c) ==
    /\ arg[c].stage = "copied"
    /\ arg' = [arg EXCEPT ![c].stage = "returned"]
    /\ ret' = [ret EXCEPT ![c] = AnnotateCopy(arg[c].out, arg[c].sims, arg[c].idx)]
    /\ RAG_INDEX' = IndexAfterRetrieve(RAG_INDEX, arg[c].sims)
    /\ UNCHANGED <<env, world, pc, rag_warning, effects>>

InitConcurrent ==
    /\ env \in Envs({"true"}, {"kb.csv"}, {"tfidf", "embeddings"},
                    {DefaultTopK}, {DefaultMaxChars}, {"true"},
                    {DefaultBatchSize}, {DefaultMaxLength})
    /\ world \in Worlds({TRUE}, {{"title", "text"}},
                        SeqsUpTo({[title |-> T, text |-> AB], [title |-> NaN, text |-> CD]}, 2),
                        {TRUE})
    /\ pc = "import"
    /\ RAG_INDEX = NoIndex
    /\ rag_warning = "none"
    /\ effects = NoEffects
    /\ arg = [c \in Callers |-> IdleCall]
    /\ ret = [c \in Callers |-> NoCall]

NextConcurrent ==
    \/ ImportModule
    \/ \E c \in Callers :
          CallRetrieve(c) \/ ScoreEntries(c) \/ SelectRows(c) \/ AnnotateRows(c)

SpecConcurrent == InitConcurrent /\ [][NextConcurrent]_vars

\* the index object as the import constructed it
IndexAsBuilt ==
    LET b == build_index_from_env(env, world)
    IN  IF b.raised = "none" THEN b.index ELSE NoIndex

\* C14: the index is read-only after construction: no retrieve call changes
\* its table, matrix, vectorizer or configuration (the similarity and kb_id
\* columns are written to a copy), so under any interleaving of retrieve
\* calls from several callers each call returns what it returns when run
\* alone.
C14_IndexReadOnly ==
    pc = "run" =>
        /\ RAG_INDEX = IndexAsBuilt
        /\ \A c \in Callers :
              arg[c].stage = "returned" =>
                  ret[c] = retrieve_kb(arg[c].query, IndexAsBuilt, arg[c].top_k, world.tie)

\* C14 witness: two callers with different queries were inside retrieve at
\* the same time, and both have returned rows
C14_Witness ==
    /\ pc = "run"
    /\ \A c \in Callers : arg[c].stage = "returned" /\ Len(ret[c].rows) >= 1
    /\ \E c \in Callers : arg[c].overlap
    /\ \E c, d \in Callers : arg[c].query # arg[d].query

-----------------------------------------------------------------------------
(* Missing values (Spec) *)

\* the rows with every missing title or text replaced by the empty string
Filled(rows) ==
    [r \in 1..Len(rows) |->
        [rows[r] EXCEPT !.title = safe_text(@), !.text = safe_text(@)]]

\* C16 (as stated): a missing value in the title or text column of a corpus
\* entry is the empty string everywhere downstream: the entry is indexed as
\* empty text, and when it is retrieved and formatted its missing title or
\* text contributes an empty string to the block, never a null marker.
C16_MissingValuesAsEmptyString ==
    (PromptBuilt /\ ret.retrieved /\ ~ret.failed) =>
        /\ RAG_INDEX.matrix =
              build_index_from_env(env, [world EXCEPT !.kb_rows = Filled(@)]).index.matrix
        /\ ret.rag_block =
              format_rag_context(DataFrame(Filled(ret.snips.rows)), env.RAG_MAX_CHARS).out

-----------------------------------------------------------------------------
(* A lexical index queried with the text of one of its own entries *)

ABAB == <<"a", "b", " ", "a", "b">>

\* texts with one term, two terms, no term, and one term twice
EntryTexts == {AB, ABCD, Blank, ABAB}

RetrieveEntryText ==
    /\ pc = "run"
    /\ Gate(RAG_INDEX)
    /\ \E e \in 1..Len(world.kb_rows), top_k \in 1..MaxTopK :
         LET query == safe_text(world.kb_rows[e].text)
         IN  /\ arg' = [fn |-> "retrieve_kb", entry |-> e, query |-> query,
                        top_k |-> top_k]
             /\ ret' = WithColumns(retrieve_kb(query, RAG_INDEX, top_k, world.tie),
                                   RetrieveColumns(RAG_INDEX, world.kb_columns))
    /\ effects' = [effects EXCEPT !.retrieve_calls = @ + 1]
    /\ pc' = "returned"
    /\ UNCHANGED <<env, world, RAG_INDEX, rag_warning>>

InitSelfMatch ==
    /\ env \in Envs({"true"}, {"kb.csv"}, {"tfidf"}, {DefaultTopK}, {DefaultMaxChars},
                    {"true"}, {DefaultBatchSize}, {DefaultMaxLength})
    /\ world \in Worlds({TRUE}, {{"title", "text"}},
                        SeqsUpTo({[title |-> T, text |-> x] : x \in EntryTexts}, MaxRows),
                        {TRUE})
    /\ pc = "import"
    /\ RAG_INDEX = NoIndex
    /\ rag_warning = "none"
    /\ effects = NoEffects
    /\ arg = NoCall
    /\ ret = NoCall

NextSelfMatch == ImportModule \/ RetrieveEntryText

SpecSelfMatch == InitSelfMatch /\ [][NextSelfMatch]_vars

\* similarity 1.0
One == [num |-> 1, den |-> 1]

\* the text has a term the vectorizer indexes
HasIndexedTerm(s) == Analyze(s) # <<>>

\* C17 (as amended): a query equal verbatim to an entry's text gives that
\* entry similarity 1.0 when the text holds at least one indexed term (and
\* 0.0 when it holds none); no entry scores above 1.0; and the entry is
\* ranked first when no other entry scores 1.0 as well.
C17_SelfMatchIsUpperBound ==
    RetrieveReturned =>
        LET sims == Sims(RAG_INDEX, arg.query)
            e    == arg.entry
        IN  /\ \A i \in 1..Len(sims) : ~SimLess(One, sims[i])
            /\ HasIndexedTerm(arg.query) => SimEq(sims[e], One)
            /\ ~HasIndexedTerm(arg.query) => sims[e].num = 0
            /\ (/\ HasIndexedTerm(arg.query)
                /\ \A i \in (1..Len(sims)) \ {e} : SimLess(sims[i], One))
               => (/\ ret.rows[1].kb_id = e - 1
                   /\ SimEq(ret.rows[1].similarity, One))

\* C17 witness: a corpus of three entries with different term vectors,
\* queried with the text of its second entry, which comes first
C17_Witness ==
    /\ RetrieveReturned
    /\ CorpusSize = 3
    /\ arg.entry = 2
    /\ HasIndexedTerm(arg.query)
    /\ \A i \in {1, 3} : SimLess(Sims(RAG_INDEX, arg.query)[i], One)
    /\ \E i \in {1, 3} : Sims(RAG_INDEX, arg.query)[i].num > 0
    /\ ret.rows[1].kb_id = 1

\* C17 (as stated): for a lexical index over a corpus of 3 entries, a query
\* equal verbatim to entry 2's text ranks entry 2 first with similarity 1.0,
\* and no entry scores above 1.0.
C17_EntryTwoRanksFirst ==
    (RetrieveReturned /\ CorpusSize = 3 /\ arg.entry = 2) =>
        /\ ret.rows[1].kb_id = 1
        /\ SimEq(ret.rows[1].similarity, One)
        /\ \A i \in 1..3 : ~SimLess(One, Sims(RAG_INDEX, arg.query)[i])

-----------------------------------------------------------------------------
(* A second lexical index built from the same corpus, and both queried *)

RebuildAndRetrieve ==
    /\ pc = "run"
    /\ Gate(RAG_INDEX)
    /\ LET second == build_index_from_env(env, world)
       IN  /\ second.raised = "none"
           /\ \E query \in {AB, ABCD, EmptyStr}, top_k \in 0..MaxTopK :
                /\ arg' = [fn |-> "retrieve_twice", query |-> query, top_k |-> top_k]
                /\ ret' = [first  |-> retrieve_kb(query, RAG_INDEX, top_k, world.tie),
                           second |-> retrieve_kb(query, second.index, top_k, world.tie)]
           /\ effects' = [effects EXCEPT !.corpus_reads   = @ + second.corpus_reads,
                                         !.model_loads    = @ + second.model_loads,
                                         !.index_builds   = @ + second.index_builds,
                                         !.retrieve_calls = @ + 2]
    /\ pc' = "returned"
    /\ UNCHANGED <<env, world, RAG_INDEX, rag_warning>>

InitRebuild ==
    /\ env \in Envs({"true"}, {"kb.csv"}, {"tfidf"}, {DefaultTopK}, {DefaultMaxChars},
                    {"true"}, {DefaultBatchSize}, {DefaultMaxLength})
    /\ world \in Worlds({TRUE}, {{"title", "text"}},
                        SeqsUpTo({[title |-> T, text |-> x] : x \in {AB, ABCD, ABAB}},
                                 MaxRows),
                        {TRUE})
    /\ pc = "import"
    /\ RAG_INDEX = NoIndex
    /\ rag_warning = "none"
    /\ effects = NoEffects
    /\ arg = NoCall
    /\ ret = NoCall

NextRebuild == ImportModule \/ RebuildAndRetrieve

SpecRebuild == InitRebuild /\ [][NextRebuild]_vars

RetrievedTwice == pc = "returned" /\ arg.fn = "retrieve_twice"

-----------------------------------------------------------------------------
(* extract_risk_score (patient_risk_pipeline.py) and its copy in parsing.py.

   A Python value is its type with, for a str, its characters.  The result
   is None or the number num / den. *)

PyStr(s) == [type |-> "str", s |-> s]

PyNone == [type |-> "NoneType", s |-> <<>>]

PyFloatNaN == [type |-> "float", s |-> <<>>]

RiskNone == [isNone |-> TRUE, num |-> 0, den |-> 1]

RiskValue(n, d) == [isNone |-> FALSE, num |-> n, den |-> d]

LowerCase == <<"a", "b", "c", "d", "e", "f", "g", "h", "i", "j", "k", "l", "m", "n", "o", "p", "q", "r", "s", "t", "u", "v", "w", "x", "y", "z">>

UpperCase == <<"A", "B", "C", "D", "E", "F", "G", "H", "I", "J", "K", "L", "M", "N", "O", "P", "Q", "R", "S", "T", "U", "V", "W", "X", "Y", "Z">>

DigitChars == <<"0", "1", "2", "3", "4", "5", "6", "7", "8", "9">>

Range(f) == {f[i] : i \in DOMAIN f}

\* \w of the re module, on the characters of the model
IsWordChar(c) == c \in Range(LowerCase) \cup Range(UpperCase) \cup Range(DigitChars) \cup {"_"}

\* re.IGNORECASE: characters are compared in lower case
Lower(c) ==
    IF c \in Range(UpperCase)
    THEN LowerCase[CHOOSE i \in 1..Len(UpperCase) : UpperCase[i] = c]
    ELSE c

DigitValue(c) == (CHOOSE i \in 1..Len(DigitChars) : DigitChars[i] = c) - 1

\* the character at position i, "" outside the string
CharAt(s, i) == IF i \in 1..Len(s) THEN s[i] ELSE ""

\* \b at position i: between s[i-1] and s[i] exactly one is a word character
WordBoundaryAt(s, i) == IsWordChar(CharAt(s, i - 1)) # IsWordChar(CharAt(s, i))

\* a literal matched at i, case ignored: the position after it, 0 on failure
MatchLiteral(s, i, lit) ==
    IF /\ i + Len(lit) - 1 <= Len(s)
       /\ \A k \in 1..Len(lit) : Lower(s[i + k - 1]) = lit[k]
    THEN i + Len(lit) ELSE 0

\* \s* from i: the position after the spaces
RECURSIVE SkipSpaces(_, _)
SkipSpaces(s, i) ==
    IF i <= Len(s) /\ IsSpace(s[i]) THEN SkipSpaces(s, i + 1) ELSE i

\* [0-9]* from i: the position after the digits
RECURSIVE SkipDigits(_, _)
SkipDigits(s, i) ==
    IF i <= Len(s) /\ s[i] \in Range(DigitChars) THEN SkipDigits(s, i + 1) ELSE i

NoMatch == [ok |-> FALSE, from |-> 0, to |-> 0]

Group(from, to) == [ok |-> TRUE, from |-> from, to |-> to]

\* \brisk\s*score\s*:\s*([0-9]+(?:\.[0-9]+)?)\b tried at position i: group 1.
\* The greedy number is tried first; when \b fails after a fraction the
\* engine backtracks to the integer part, which the "." delimits.
MatchAt(s, i) ==
    LET a == IF WordBoundaryAt(s, i) THEN MatchLiteral(s, i, <<"r", "i", "s", "k">>) ELSE 0
        b == IF a = 0 THEN 0
             ELSE MatchLiteral(s, SkipSpaces(s, a), <<"s", "c", "o", "r", "e">>)
        c == IF b = 0 THEN 0 ELSE MatchLiteral(s, SkipSpaces(s, b), <<":">>)
        d == IF c = 0 THEN 0 ELSE SkipSpaces(s, c)
        e == SkipDigits(s, d)
        f == SkipDigits(s, e + 1)
        hasFrac == CharAt(s, e) = "." /\ f > e + 1
    IN  IF c = 0 \/ e = d THEN NoMatch
        ELSE IF hasFrac /\ WordBoundaryAt(s, f) THEN Group(d, f - 1)
        ELSE IF hasFrac THEN Group(d, e - 1)
        ELSE IF WordBoundaryAt(s, e) THEN Group(d, e - 1)
        ELSE NoMatch

\* re.search: the match at the leftmost position that has one
Search(s) ==
    LET at == [i \in 1..Len(s) |-> MatchAt(s, i)]
    IN  IF \E i \in 1..Len(s) : at[i].ok
        THEN at[CHOOSE i \in 1..Len(s) : at[i].ok /\ \A j \in 1..(i - 1) : ~at[j].ok]
        ELSE NoMatch

\* the digits of a numeral as an integer, the "." passed over
RECURSIVE DigitsValue(_)
DigitsValue(g) ==
    IF g = <<>> THEN 0
    ELSE IF g[Len(g)] = "." THEN DigitsValue(SubSeq(g, 1, Len(g) - 1))
    ELSE DigitValue(g[Len(g)]) + 10 * DigitsValue(SubSeq(g, 1, Len(g) - 1))

\* 10 to the number of digits after the "."
RECURSIVE Scale(_)
Scale(g) ==
    IF g = <<>> \/ "." \notin Range(g) THEN 1
    ELSE IF g[Len(g)] = "." THEN 1
    ELSE 10 * Scale(SubSeq(g, 1, Len(g) - 1))

\* (mutant) 100 excluded
InRangeBelowHundred(n, scale) == 0 <= n /\ n < 100 * scale

\* 0.0 <= val <= 100.0, for val = n / scale
InRange(n, scale) == 0 <= n /\ n <= 100 * scale

\* float(m.group(1)), range test, val / 100.0
ScoreOfGroup(s, m) ==
    LET g == SubSeq(s, m.from, m.to)
    IN  IF InRange(DigitsValue(g), Scale(g))
        THEN RiskValue(DigitsValue(g), 100 * Scale(g))
        ELSE RiskNone

\* patient_risk_pipeline.extract_risk_score
extract_risk_score(text) ==
    IF text.type # "str" THEN RiskNone
    ELSE LET m == Search(text.s)
         IN  IF ~m.ok THEN RiskNone ELSE ScoreOfGroup(text.s, m)

\* parsing.extract_risk_score
parsing_extract_risk_score(text) ==
    IF text.type # "str" THEN RiskNone
    ELSE LET m == Search(text.s)
         IN  IF ~m.ok THEN RiskNone ELSE ScoreOfGroup(text.s, m)

-----------------------------------------------------------------------------
(* extract_risk_score called on texts put together from a context before,
   a label, a colon with its spacing, a value and a context after *)

ValidLabels ==
    {<<"R", "i", "s", "k", " ", "S", "c", "o", "r", "e">>,
     <<"r", "i", "s", "k", " ", "s", "c", "o", "r", "e">>,
     <<"R", "I", "S", "K", " ", " ", "S", "C", "O", "R", "E">>,
     <<"R", "i", "s", "k", "S", "c", "o", "r", "e">>}

WrongLabels ==
    {<<"R", "i", "s", "k">>,
     <<"R", "i", "s", "c", " ", "S", "c", "o", "r", "e">>}

ValidColons ==
    {<<":">>,
     <<":", " ">>,
     <<" ", ":", " ", " ">>,
     <<":", "\n">>}

WrongColons ==
    {<<" ">>,
     <<" ", "-", " ">>}

\* numerals with the number they denote, n / scale
InRangeNumerals ==
    {[chars |-> <<"0">>, n |-> 0, scale |-> 1],
     [chars |-> <<"1">>, n |-> 1, scale |-> 1],
     [chars |-> <<"8", "7">>, n |-> 87, scale |-> 1],
     [chars |-> <<"1", "0", "0">>, n |-> 100, scale |-> 1],
     [chars |-> <<"5", "5", ".", "0">>, n |-> 550, scale |-> 10],
     [chars |-> <<"1", "0", "0", ".", "0">>, n |-> 1000, scale |-> 10],
     [chars |-> <<"0", "0", "7">>, n |-> 7, scale |-> 1],
     [chars |-> <<"4", "2", ".", "5", "0">>, n |-> 4250, scale |-> 100]}

OutOfRangeNumerals ==
    {[chars |-> <<"1", "0", "1">>, n |-> 101, scale |-> 1],
     [chars |-> <<"1", "0", "0", ".", "5">>, n |-> 1005, scale |-> 10],
     [chars |-> <<"1", "0", "0", "0">>, n |-> 1000, scale |-> 1]}

\* a negative value, a non-numeric value, no value
NonNumerals ==
    {[chars |-> <<"-", "1">>, n |-> 0, scale |-> 1],
     [chars |-> <<"a", "b", "c">>, n |-> 0, scale |-> 1],
     [chars |-> <<>>, n |-> 0, scale |-> 1]}

\* contexts that leave the label and the value delimited
CleanBefore ==
    {<<>>,
     <<" ">>,
     <<"S", "u", "m", "m", "a", "r", "y", ".", "\n">>}

CleanAfter ==
    {<<>>,
     <<" ">>,
     <<"\n", "F", "o", "l", "l", "o", "w", "-", "u", "p", ":", " ", "y", "e", "s">>,
     <<"%">>}

\* contexts that run into the label or the value, or hold a score themselves
OtherBefore ==
    {<<"x">>,
     <<"R", "i", "s", "k", " ", "S", "c", "o", "r", "e", ":", " ", "1", "0", "1", ".", " ">>}

OtherAfter ==
    {<<"x">>,
     <<".", "5", "x">>}

TextOf(parts) ==
    parts.before \o parts.label \o parts.colon \o parts.value.chars \o parts.after

ExtractRiskScore ==
    /\ pc = "call"
    /\ arg.fn = "extract_risk_score"
    /\ ret' = [pipeline |-> extract_risk_score(arg.text),
               parsing  |-> parsing_extract_risk_score(arg.text)]
    /\ pc' = "returned"
    /\ UNCHANGED <<env, world, RAG_INDEX, rag_warning, effects, arg>>

NoParts ==
    [before |-> <<>>, label |-> <<>>, colon |-> <<>>,
     value |-> [chars |-> <<>>, n |-> 0, scale |-> 1], after |-> <<>>]

InitExtract ==
    /\ env \in Envs({"false"}, {"unset"}, {"tfidf"}, {DefaultTopK}, {DefaultMaxChars},
                    {"true"}, {DefaultBatchSize}, {DefaultMaxLength})
    /\ world \in Worlds({TRUE}, {{"title", "text"}}, {<<>>}, {TRUE})
    /\ pc = "call"
    /\ RAG_INDEX = NoIndex
    /\ rag_warning = "none"
    /\ effects = NoEffects
    /\ \/ \E parts \in [before : CleanBefore \cup OtherBefore,
                        label  : ValidLabels \cup WrongLabels,
                        colon  : ValidColons \cup WrongColons,
                        value  : InRangeNumerals \cup OutOfRangeNumerals \cup NonNumerals,
                        after  : CleanAfter \cup OtherAfter] :
             arg = [fn |-> "extract_risk_score", text |-> PyStr(TextOf(parts)),
                    parts |-> parts]
       \/ \E v \in {PyNone, PyFloatNaN} :
             arg = [fn |-> "extract_risk_score", text |-> v, parts |-> NoParts]
    /\ ret = NoCall

NextExtract == ExtractRiskScore

SpecExtract == InitExtract /\ [][NextExtract]_vars

ExtractReturned == pc = "returned" /\ arg.fn = "extract_risk_score"

\* the text is a score line: a valid label, colon and numeral, delimited
WellFormed(parts) ==
    /\ parts.before \in CleanBefore
    /\ parts.after \in CleanAfter
    /\ parts.label \in ValidLabels
    /\ parts.colon \in ValidColons
    /\ parts.value \in InRangeNumerals \cup OutOfRangeNumerals

\* the text holds no score line: the label, the colon or the value is wrong
Noise(parts) ==
    /\ parts.before \in CleanBefore
    /\ parts.after \in CleanAfter
    /\ \/ parts.label \in WrongLabels
       \/ parts.colon \in WrongColons
       \/ parts.value \in NonNumerals

-----------------------------------------------------------------------------
(* parse_response_and_concerns and safe_split (patient_risk_pipeline.py) *)

\* str.splitlines() on "\n": the pieces between the line breaks, without
\* an empty piece after the last break
SplitLines(s) ==
    LET breaks   == SelectSeq([i \in 1..Len(s) |-> i], LAMBDA i : s[i] = "\n")
        n        == Len(breaks)
        start(k) == IF k = 1 THEN 1 ELSE breaks[k - 1] + 1
        stop(k)  == IF k <= n THEN breaks[k] - 1 ELSE Len(s)
        pieces   == IF s = <<>> \/ s[Len(s)] = "\n" THEN n ELSE n + 1
    IN  [k \in 1..pieces |-> SubSeq(s, start(k), stop(k))]

\* re.sub(r"\s+", "", s).lower()
Squeezed(s) ==
    LET kept == SelectSeq(s, LAMBDA c : ~IsSpace(c))
    IN  [i \in 1..Len(kept) |-> Lower(kept[i])]

StartsWith(s, p) == Len(p) <= Len(s) /\ SubSeq(s, 1, Len(p)) = p

\* position of the first ":" of the line, 0 when it has none
FirstColon(line) ==
    IF \E i \in 1..Len(line) : line[i] = ":"
    THEN CHOOSE i \in 1..Len(line) : line[i] = ":" /\ \A j \in 1..(i - 1) : line[j] # ":"
    ELSE 0

\* (mutant) the label must be the whole left-hand side
safe_split_exact(line, label) ==
    LET c == FirstColon(line)
    IN  IF c = 0 THEN PyNone
        ELSE IF Squeezed(SubSeq(line, 1, c - 1)) = Squeezed(label)
             THEN PyStr(strip(SubSeq(line, c + 1, Len(line))))
        ELSE PyNone

\* lhs, rhs = line.split(":", 1): unpacking raises when there is no colon,
\* and the except returns None
safe_split(line, label) ==
    LET c == FirstColon(line)
    IN  IF c = 0 THEN PyNone
        ELSE IF StartsWith(Squeezed(SubSeq(line, 1, c - 1)), Squeezed(label))
             THEN PyStr(strip(SubSeq(line, c + 1, Len(line))))
        ELSE PyNone

\* lines = [l.strip() for l in str(text).strip().splitlines() if l.strip() != ""]
ResponseLines(text) ==
    LET s   == IF text.type = "str" THEN text.s ELSE <<"N", "o", "n", "e">>
        raw == SplitLines(strip(s))
        all == [i \in 1..Len(raw) |-> strip(raw[i])]
    IN  SelectSeq(all, LAMBDA l : l # <<>>)

\* concerns_idx as a position 1..Len(lines), 0 for None
ConcernsIdx(lines) ==
    LET header == [i \in 1..Len(lines) |->
                      StartsWith(Squeezed(lines[i]), <<"t", "o", "p", "m", "e", "d", "i", "c", "a", "l", "c", "o", "n", "c", "e", "r", "n", "s">>)]
    IN  IF \E i \in 1..Len(lines) : header[i]
        THEN CHOOSE i \in 1..Len(lines) : header[i] /\ \A j \in 1..(i - 1) : ~header[j]
        ELSE 0

\* lines[:concerns_idx] if concerns_idx is not None else lines[:4]
HeaderSlice(lines, concerns_idx) ==
    IF concerns_idx > 0 THEN SubSeq(lines, 1, concerns_idx - 1)
    ELSE SliceTo(lines, 4)

LabelFollowUp1 == <<"F", "o", "l", "l", "o", "w", "-", "u", "p", " ", "1", " ", "m", "o", "n", "t", "h">>

LabelFollowUp6 == <<"F", "o", "l", "l", "o", "w", "-", "u", "p", " ", "6", " ", "m", "o", "n", "t", "h", "s">>

LabelOncology == <<"O", "n", "c", "o", "l", "o", "g", "y", " ", "r", "e", "c", "o", "m", "m", "e", "n", "d", "e", "d">>

LabelCardiology == <<"C", "a", "r", "d", "i", "o", "l", "o", "g", "y", " ", "r", "e", "c", "o", "m", "m", "e", "n", "d", "e", "d">>

\* for l in header_slice: the first label that matches takes the line
RECURSIVE HeaderLoop(_, _, _)
HeaderLoop(slice, i, f) ==
    IF i > Len(slice) THEN f
    ELSE LET v1 == safe_split(slice[i], LabelFollowUp1)
             v2 == safe_split(slice[i], LabelFollowUp6)
             v3 == safe_split(slice[i], LabelOncology)
             v4 == safe_split(slice[i], LabelCardiology)
         IN  IF v1.type = "str"
             THEN HeaderLoop(slice, i + 1, [f EXCEPT !.follow_up_1mo = v1])
             ELSE IF v2.type = "str"
             THEN HeaderLoop(slice, i + 1, [f EXCEPT !.follow_up_6mo = v2])
             ELSE IF v3.type = "str"
             THEN HeaderLoop(slice, i + 1, [f EXCEPT !.oncology_rec = v3])
             ELSE IF v4.type = "str"
             THEN HeaderLoop(slice, i + 1, [f EXCEPT !.cardiology_rec = v4])
             ELSE HeaderLoop(slice, i + 1, f)

\* the Series returned: a record with the five keys
parse_response_and_concerns(text) ==
    LET lines == ResponseLines(text)
        idx   == ConcernsIdx(lines)
    IN  HeaderLoop(HeaderSlice(lines, idx), 1,
                   [follow_up_1mo |-> PyNone, follow_up_6mo |-> PyNone,
                    oncology_rec |-> PyNone, cardiology_rec |-> PyNone,
                    top_concerns |->
                        IF idx > 0
                        THEN PyStr(join(<<"\n">>, SubSeq(lines, idx + 1, Len(lines))))
                        ELSE PyStr(EmptyStr)])

-----------------------------------------------------------------------------
(* parse_response_and_concerns called on responses of a few lines *)

MaxLines == 3

\* lines of a response: labels in other casing and spacing, a label twice,
\* a label followed by more words, an empty value, the concerns header, a
\* blank line
ResponseLineTexts ==
    {<<" ", "f", "o", "l", "l", "o", "w", "-", "u", "p", " ", "1", " ", "M", "o", "n", "t", "h", " ", " ", ":", " ", "y", "e", "s", " ">>,
     <<"F", "o", "l", "l", "o", "w", "-", "u", "p", " ", "1", " ", "m", "o", "n", "t", "h", ":", " ", "N", "o">>,
     <<"F", "o", "l", "l", "o", "w", "-", "u", "p", " ", "6", " ", "m", "o", "n", "t", "h", "s", " ", "p", "l", "a", "n", ":", " ", "a", ":", "b">>,
     <<"O", "n", "c", "o", "l", "o", "g", "y", " ", "r", "e", "c", "o", "m", "m", "e", "n", "d", "e", "d", ":">>,
     <<"c", "a", "r", "d", "i", "o", "l", "o", "g", "y", " ", " ", " ", "r", "e", "c", "o", "m", "m", "e", "n", "d", "e", "d", ":", " ", " ", "N", "o">>,
     <<"T", "O", "P", " ", " ", "m", "e", "d", "i", "c", "a", "l", " ", "c", "o", "n", "c", "e", "r", "n", "s", ":">>,
     <<" ", " ">>}

\* lines that come before the rest, none of them a field or a header
Preludes == {<<>>, <<<<"S", "u", "m", "m", "a", "r", "y">>, <<"P", "a", "t", "i", "e", "n", "t", " ", "i", "s", " ", "s", "t", "a", "b", "l", "e">>>>}

ParseResponse ==
    /\ pc = "call"
    /\ arg.fn = "parse_response_and_concerns"
    /\ ret' = parse_response_and_concerns(arg.text)
    /\ pc' = "returned"
    /\ UNCHANGED <<env, world, RAG_INDEX, rag_warning, effects, arg>>

InitParse ==
    /\ env \in Envs({"false"}, {"unset"}, {"tfidf"}, {DefaultTopK}, {DefaultMaxChars},
                    {"true"}, {DefaultBatchSize}, {DefaultMaxLength})
    /\ world \in Worlds({TRUE}, {{"title", "text"}}, {<<>>}, {TRUE})
    /\ pc = "call"
    /\ RAG_INDEX = NoIndex
    /\ rag_warning = "none"
    /\ effects = NoEffects
    /\ \/ \E prelude \in Preludes, rest \in SeqsUpTo(ResponseLineTexts, MaxLines) :
             arg = [fn |-> "parse_response_and_concerns",
                    text |-> PyStr(join(<<"\n">>, prelude \o rest)),
                    lines |-> prelude \o rest]
       \/ arg = [fn |-> "parse_response_and_concerns", text |-> PyNone, lines |-> <<>>]
    /\ ret = NoCall

NextParse == ParseResponse

SpecParse == InitParse /\ [][NextParse]_vars

ParseReturned == pc = "returned" /\ arg.fn = "parse_response_and_concerns"

\* the non-empty lines of the response, trimmed
Trimmed ==
    LET src == IF arg.text.type = "str" THEN arg.lines ELSE <<<<"N", "o", "n", "e">>>>
    IN  SelectSeq([i \in 1..Len(src) |-> strip(src[i])], LAMBDA l : l # <<>>)

\* the part of the line before its first colon is the label, or begins
\* with it, case and whitespace ignored
LabelMatches(line, label) ==
    /\ ":" \in Range(line)
    /\ StartsWith(Squeezed(SubSeq(line, 1, FirstColon(line) - 1)), Squeezed(label))

\* positions of the lines before the header, or of the first four lines
FieldPositions(lines) ==
    IF ConcernsIdx(lines) > 0 THEN 1..(ConcernsIdx(lines) - 1)
    ELSE {i \in 1..Len(lines) : i <= 4}

\* what a header field must hold: the trimmed text after the first colon of
\* the (last) matching line, None when no line matches
ExpectedField(lines, positions, label) ==
    LET hits == {i \in positions : LabelMatches(lines[i], label)}
    IN  IF hits = {} THEN PyNone
        ELSE LET i == CHOOSE h \in hits : \A g \in hits : g <= h
             IN  PyStr(strip(SubSeq(lines[i], FirstColon(lines[i]) + 1, Len(lines[i]))))

-----------------------------------------------------------------------------
(* get_chat_response (patient_risk_pipeline.py and llm.py).  The API is a
   sequence of outcomes, one for each call that may be made: a reply with
   its content, or an exception.  An exception has a type (one of the
   openai error classes the llm.py copy names, or another) and a message
   that does or does not hold one of the transient phrases. *)

ApiReply(content) == [ok |-> TRUE, content |-> content, typed |-> FALSE, phrase |-> FALSE]

ApiError(typed, phrase) == [ok |-> FALSE, content |-> PyNone, typed |-> typed, phrase |-> phrase]

\* the head of RISK_PROMPT
RiskPromptHead == <<"P", "l", "e", "a", "s", "e", " ", "a", "s", "s", "u", "m", "e", " ", "t", "h", "e", " ", "r", "o", "l", "e">>

\* the head of COMBINED_PROMPT
CombinedPromptHead == <<"\n", "Y", "o", "u", " ", "a", "r", "e", " ", "a">>

\* the reply of the stub to the risk prompt
StubRiskReply == <<"R", "i", "s", "k", " ", "S", "c", "o", "r", "e", ":", " ", "7", "2", "\n", "L", "i", "k", "e", "l", "y", " ", "f", "o", "l", "l", "o", "w", "-", "u", "p", " ", "n", "e", "e", "d", "e", "d", ".">>

\* the reply of the stub to any other prompt
StubCombinedReply ==
    <<"F", "o", "l", "l", "o", "w", "-", "u", "p", " ", "1", " ", "m", "o", "n", "t", "h", ":", " ", "Y", "e", "s", "\n">> \o
    <<"F", "o", "l", "l", "o", "w", "-", "u", "p", " ", "6", " ", "m", "o", "n", "t", "h", "s", ":", " ", "Y", "e", "s", "\n">> \o
    <<"O", "n", "c", "o", "l", "o", "g", "y", " ", "r", "e", "c", "o", "m", "m", "e", "n", "d", "e", "d", ":", " ", "N", "o", "\n">> \o
    <<"C", "a", "r", "d", "i", "o", "l", "o", "g", "y", " ", "r", "e", "c", "o", "m", "m", "e", "n", "d", "e", "d", ":", " ", "Y", "e", "s", "\n", "\n">> \o
    <<"T", "o", "p", " ", "M", "e", "d", "i", "c", "a", "l", " ", "C", "o", "n", "c", "e", "r", "n", "s", ":", "\n">> \o
    <<"1", ".", " ", "H", "y", "p", "e", "r", "t", "e", "n", "s", "i", "o", "n", "\n", "2", ".", " ", "A", "1", "c", " ", "e", "l", "e", "v", "a", "t", "i", "o", "n", "\n">> \o
    <<"3", ".", " ", "C", "h", "e", "s", "t", " ", "p", "a", "i", "n", "\n", "4", ".", " ", "M", "e", "d", "i", "c", "a", "t", "i", "o", "n", " ", "a", "d", "h", "e", "r", "e", "n", "c", "e", "\n", "5", ".", " ", "B", "M", "I">>

\* if LLM_DISABLED: the deterministic stub
StubReply(inquiry_note) ==
    IF StartsWith(strip(inquiry_note), RiskPromptHead) THEN StubRiskReply
    ELSE StubCombinedReply

\* transient = any(s in msg for s in [...]); the llm.py copy also retries
\* every RateLimitError, APITimeoutError, APIConnectionError and APIError
Transient(copy, outcome) ==
    outcome.phrase \/ (copy = "llm" /\ outcome.typed)

\* (mutant) the break is taken on the first attempt too
BreaksOffAtOnce(copy, outcome, attempt) == ~Transient(copy, outcome)

\* if not transient and attempt >= 1: break
BreaksOff(copy, outcome, attempt) == ~Transient(copy, outcome) /\ attempt >= 1

\* resp.choices[0].message.content, and "or ''" in the llm.py copy
ReplyContent(copy, outcome) ==
    IF copy = "llm" /\ outcome.content.type # "str" THEN PyStr(EmptyStr)
    ELSE outcome.content

\* for attempt in range(retries): attempt counts from 0
RECURSIVE ChatLoop(_, _, _, _)
ChatLoop(copy, api, retries, attempt) ==
    IF attempt >= retries
    THEN [content |-> PyStr(EmptyStr), calls |-> attempt]
    ELSE IF api[attempt + 1].ok
         THEN [content |-> ReplyContent(copy, api[attempt + 1]), calls |-> attempt + 1]
    ELSE IF BreaksOff(copy, api[attempt + 1], attempt)
         THEN [content |-> PyStr(EmptyStr), calls |-> attempt + 1]
    ELSE ChatLoop(copy, api, retries, attempt + 1)

\* copy is "pipeline" or "llm"
get_chat_response(copy, inquiry_note, retries, disabled, api) ==
    IF disabled THEN [content |-> PyStr(StubReply(inquiry_note)), calls |-> 0]
    ELSE ChatLoop(copy, api, retries, 0)

-----------------------------------------------------------------------------
(* get_chat_response called with a number of retries against an API whose
   outcomes are fixed beforehand *)

MaxRetries == 3

ApiOutcomes ==
    {ApiReply(PyStr(<<"o", "k">>)), ApiReply(PyNone),
     ApiError(TRUE, FALSE), ApiError(FALSE, TRUE), ApiError(FALSE, FALSE)}

GetChatResponse ==
    /\ pc = "call"
    /\ arg.fn = "get_chat_response"
    /\ ret' = get_chat_response(arg.copy, arg.inquiry_note, arg.retries, arg.disabled,
                                arg.api)
    /\ pc' = "returned"
    /\ UNCHANGED <<env, world, RAG_INDEX, rag_warning, effects, arg>>

InitChat ==
    /\ env \in Envs({"false"}, {"unset"}, {"tfidf"}, {DefaultTopK}, {DefaultMaxChars},
                    {"true"}, {DefaultBatchSize}, {DefaultMaxLength})
    /\ world \in Worlds({TRUE}, {{"title", "text"}}, {<<>>}, {TRUE})
    /\ pc = "call"
    /\ RAG_INDEX = NoIndex
    /\ rag_warning = "none"
    /\ effects = NoEffects
    /\ arg \in [fn : {"get_chat_response"}, copy : {"pipeline", "llm"},
                inquiry_note : {RiskPromptHead \o AB, CombinedPromptHead \o AB},
                retries : 0..MaxRetries, disabled : BOOLEAN,
                api : [1..MaxRetries -> ApiOutcomes]]
    /\ ret = NoCall

NextChat == GetChatResponse

SpecChat == InitChat /\ [][NextChat]_vars

ChatReturned == pc = "returned" /\ arg.fn = "get_chat_response"

\* the call after which no further call is made: a reply, or an error that
\* is not transient on the second or a later call; retries when there is none
LastCall ==
    LET Ends(k) == \/ arg.api[k].ok
                   \/ ~Transient(arg.copy, arg.api[k]) /\ k >= 2
        ends    == {k \in 1..arg.retries : Ends(k)}
    IN  IF ends = {} THEN arg.retries
        ELSE CHOOSE k \in ends : \A j \in ends : k <= j

\* C28: get_chat_response terminates without raising on API errors: it makes
\* at most retries calls, returns the content of the first successful call,
\* stops at once on a non-transient error on the second or a later attempt
\* (one on the first attempt is retried), and returns empty content when no
\* call succeeded.
C28_ChatResponseRetries ==
    (ChatReturned /\ ~arg.disabled) =>
        /\ ret.calls <= arg.retries
        /\ ret.calls = LastCall
        /\ \A k \in 1..(ret.calls - 1) : ~arg.api[k].ok
        /\ IF ret.calls > 0 /\ arg.api[ret.calls].ok
           THEN ret.content \in {arg.api[ret.calls].content, PyStr(EmptyStr)}
                /\ (arg.api[ret.calls].content.type = "str"
                       => ret.content = arg.api[ret.calls].content)
           ELSE ret.content = PyStr(EmptyStr)
        /\ (arg.retries >= 2 /\ ~arg.api[1].ok) => ret.calls >= 2

\* C28 witness: a non-transient error on the first call is retried, the
\* second call fails likewise and ends the loop before the third
C28_Witness ==
    /\ ChatReturned
    /\ ~arg.disabled
    /\ arg.retries = 3
    /\ arg.api[1] = ApiError(FALSE, FALSE)
    /\ arg.api[2] = ApiError(FALSE, FALSE)
    /\ arg.api[3].ok
    /\ ret.calls = 2
    /\ ret.content = PyStr(EmptyStr)

-----------------------------------------------------------------------------
(* Build of either backend under every batch size, then retrieve *)

\* the index is built from a table of entries of one or two words, with
\* batch sizes below, at and above the size of the table, and a maximum
\* length that cuts the longer entry
InitBuild ==
    /\ env \in Envs({"true"}, {"kb.csv"}, {"tfidf", "embeddings"},
                    {DefaultTopK}, {DefaultMaxChars}, {"true", "false"},
                    {-1, 0, 1, 2, DefaultBatchSize}, {3, DefaultMaxLength})
    /\ world \in {w \in Worlds({TRUE}, {{"title", "text"}},
                               SeqsUpTo({[title |-> T, text |-> AB],
                                         [title |-> T, text |-> ABCD]}, MaxRows),
                               {TRUE}) :
                     w.tie = Identity(Len(w.kb_rows))}
    /\ pc = "import"
    /\ RAG_INDEX = NoIndex
    /\ rag_warning = "none"
    /\ effects = NoEffects
    /\ arg = NoCall
    /\ ret = NoCall

NextBuild == ImportModule \/ RetrieveKb

SpecBuild == InitBuild /\ [][NextBuild]_vars

Built == pc # "import" /\ Gate(RAG_INDEX)

\* two vectors [v, den2] denote the same vector v / sqrt(den2)
SameVector(x, y) ==
    /\ Len(x.v) = Len(y.v)
    /\ \A k \in 1..Len(x.v) :
          /\ (x.v[k] > 0) = (y.v[k] > 0)
          /\ (x.v[k] < 0) = (y.v[k] < 0)
          /\ x.v[k] * x.v[k] * y.den2 = y.v[k] * y.v[k] * x.den2

\* the vector entry i of the corpus gets in the batch it falls in
BatchRow(texts, i, batch_size, max_len, normalize) ==
    LET first == ((i - 1) \div batch_size) * batch_size + 1
        last  == Min(first + batch_size - 1, Len(texts))
    IN  EncodeBatch(SubSeq(texts, first, last), max_len, normalize)[i - first + 1]

\* the vector a text gets when it is encoded alone, as a query is
AloneRow(text, max_len, normalize) == EncodeBatch(<<text>>, max_len, normalize)[1]

\* C24: after every successful build, for either backend and any batch_size,
\* the matrix has one row per corpus entry, row i is the vector of entry i,
\* and every row has the same number of columns.
C24_MatrixRowPerEntry ==
    Built =>
        LET texts == safe_text_series(world.kb_rows, "text")
            m     == RAG_INDEX.matrix
        IN  /\ Len(m) = Len(texts)
            /\ \A i \in 1..Len(m) :
                  IF RAG_INDEX.backend = "tfidf"
                  THEN m[i] = TfidfVector(RAG_INDEX.vocabulary, RAG_INDEX.idf, texts[i])
                  ELSE m[i] = BatchRow(texts, i, RAG_INDEX.batch_size,
                                       RAG_INDEX.max_len, RAG_INDEX.normalize)
            /\ \A i, j \in 1..Len(m) : Len(m[i].v) = Len(m[j].v)

\* C24 for batch sizes of at least 1
C24_PositiveBatchSize ==
    env.RAG_EMBED_BATCH_SIZE >= 1 => C24_MatrixRowPerEntry

RetrievedDense ==
    /\ pc = "returned"
    /\ arg.fn = "retrieve_kb"
    /\ RAG_INDEX.backend = "embeddings"

C26_RowIndependentOfBatch ==
    (Built /\ RAG_INDEX.backend = "embeddings") =>
        LET texts == safe_text_series(world.kb_rows, "text")
        IN  \A i \in 1..Len(RAG_INDEX.matrix) :
               SameVector(RAG_INDEX.matrix[i],
                          AloneRow(texts[i], RAG_INDEX.max_len, RAG_INDEX.normalize))

-----------------------------------------------------------------------------
(* run_pipeline (patient_risk_pipeline.py).  The input table is arg.rows,
   read in chunks of arg.chunksize rows; a row of a DataFrame is a function
   from column labels to cells.  The replies of the model are part of the
   input: arg.rows[i].reply is the content get_chat_response returns for
   the risk prompt of row i, arg.combined_reply the content it returns for
   every recommendation prompt.  ret holds the local variables of
   run_pipeline and the file OUTPUT_TMP, effects the calls made. *)

\* the columns run_pipeline requires of its input
required_cols == <<"idx", "visit_date", "full_note", "physician_id">>

\* the annotation columns, in the order they are added
OutputColumns ==
    <<"risk_rating", "risk_score", "combined_response", "rag_context",
      "follow_up_1mo", "follow_up_6mo", "oncology_rec", "cardiology_rec",
      "top_concerns">>

\* df[col] = None
NullCell(c) == IF c = "risk_score" THEN RiskNone ELSE PyNone

\* for col in [...]: if col not in df.columns: df[col] = None
WithOutputColumns(row) ==
    [c \in (DOMAIN row) \cup Range(OutputColumns) |->
        IF c \in DOMAIN row THEN row[c] ELSE NullCell(c)]

\* missing_cols = [c for c in required_cols if c not in df.columns]
MissingCols(columns) == SelectSeq(required_cols, LAMBDA c : c \notin columns)

\* float("inf")
Unlimited == -1

\* remaining_to_score = max_notes if max_notes > 0 else float("inf")
InitialBudget(max_notes) == IF max_notes > 0 THEN max_notes ELSE Unlimited

\* (df["visit_date"] >= start_date) & (df["visit_date"] <= end_date), and
\* if physician_id_filter: mask &= df["physician_id"].isin(physician_id_filter)
Mask(row, run) ==
    /\ row["visit_date"] >= run.start_date
    /\ row["visit_date"] <= run.end_date
    /\ (run.physician_id_filter # {} => row["physician_id"] \in run.physician_id_filter)

\* (mutant) the budget is not applied to the rows of the chunk
Unbudgeted(positions, remaining) == positions

\* if remaining_to_score < len(df_to_score):
\*     df_to_score = df_to_score.head(int(remaining_to_score))
Budgeted(positions, remaining) ==
    IF remaining # Unlimited /\ remaining < Len(positions)
    THEN SliceTo(positions, remaining)
    ELSE positions

\* remaining_to_score -= len(df_to_score)
Spent(remaining, n) == IF remaining = Unlimited THEN Unlimited ELSE remaining - n

\* (mutant) every note with a risk score counts as high risk
IsHighAnyScore(score, threshold) == ~score.isNone

\* df_to_score["risk_score"] >= threshold; a missing score compares False
IsHigh(score, threshold) ==
    ~score.isNone /\ score.num * threshold.den >= threshold.num * score.den

\* risk_rating = get_chat_response(RISK_PROMPT + str(note))["message"]["content"]
\* risk_score = extract_risk_score(risk_rating)
Scored(row, reply) ==
    [row EXCEPT !["risk_rating"] = PyStr(reply),
                !["risk_score"]  = extract_risk_score(PyStr(reply))]

\* combined_response, rag_context = query_combined_prompt(n); the parsed
\* fields of the response are written into the row
Recommended(row, q, response) ==
    LET parsed == parse_response_and_concerns(PyStr(response))
    IN  [row EXCEPT !["combined_response"] = PyStr(response),
                    !["rag_context"] = IF q.audit_none THEN PyNone
                                       ELSE PyStr(q.audit_text),
                    !["follow_up_1mo"] = parsed.follow_up_1mo,
                    !["follow_up_6mo"] = parsed.follow_up_6mo,
                    !["oncology_rec"] = parsed.oncology_rec,
                    !["cardiology_rec"] = parsed.cardiology_rec,
                    !["top_concerns"] = parsed.top_concerns]

\* (mutant) only the scored rows are written, as an inner join would
MergedScoredOnly(df, df_to_score, to_score) == df_to_score

\* df.loc[df_to_score.index, df_to_score.columns] = df_to_score: to_score
\* holds the index labels of the rows of df_to_score
Merged(df, df_to_score, to_score) ==
    [j \in 1..Len(df) |->
        IF \E n \in 1..Len(to_score) : to_score[n] = j
        THEN df_to_score[CHOOSE n \in 1..Len(to_score) : to_score[n] = j]
        ELSE df[j]]

\* summary of a run
Summary(total_rows, total_high_risk, email_sent, missing) ==
    [total_notes |-> total_rows, high_risk_count |-> total_high_risk,
     email_sent |-> email_sent, warning |-> missing]

\* (mutant) the summary of the early exit reports an email
MissingSummaryEmailed(total_rows, missing) == Summary(total_rows, 0, TRUE, missing)

\* summary = {..., "high_risk_count": 0, "email_sent": False, ...,
\*            "warning": f"Missing required input columns: {missing_cols}"}
MissingSummary(total_rows, missing) == Summary(total_rows, 0, FALSE, missing)

\* log_audit_summary(..., retries=3)
AuditRetries == 3

\* log_audit_summary: put_object is tried until it succeeds, the exception
\* of the last attempt is raised again; failures is the number of puts that
\* fail before one succeeds
AuditEvents(failures) ==
    IF failures < AuditRetries
    THEN [i \in 1..failures |-> "audit_put_failed"] \o <<"audit">>
    ELSE [i \in 1..AuditRetries |-> "audit_put_failed"]

\* (mutant) email_sent is set before the send is tried
EmailSentOnAttempt(attempted, ses) == attempted

\* email_sent = True after ses.send_email returned; an exception is logged
EmailSent(attempted, ses) == attempted /\ ses = "ok"

\* row i of the input table, with the columns the table has
InputRow(run, i) ==
    [c \in run.columns |->
        CASE c = "idx"          -> i
          [] c = "visit_date"   -> run.rows[i].visit_date
          [] c = "full_note"    -> run.rows[i].full_note
          [] c = "physician_id" -> run.rows[i].physician_id
          [] OTHER              -> PyStr(ZZ)]

\* the number of chunks read_csv(..., chunksize=chunksize) yields
ChunkCount(run) == (Len(run.rows) + run.chunksize - 1) \div run.chunksize

\* position in the table of the first row of chunk k
ChunkStart(run, k) == (k - 1) * run.chunksize + 1

\* chunk k as read
ChunkFrame(run, k) ==
    [j \in 1..(Min(k * run.chunksize, Len(run.rows)) - ChunkStart(run, k) + 1) |->
        InputRow(run, ChunkStart(run, k) + j - 1)]

\* the start of run_pipeline, up to the loop over the chunks
StartRun ==
    /\ pc = "run"
    /\ arg.fn = "run_pipeline"
    /\ ret' = [chunk_idx |-> 0, total_rows |-> 0, total_high_risk |-> 0,
               remaining_to_score |-> InitialBudget(arg.max_notes),
               wrote_header |-> FALSE, output |-> <<>>, email_sent |-> FALSE,
               summary |-> Summary(0, 0, FALSE, <<>>), exit_status |-> 0,
               df |-> <<>>, to_score |-> <<>>, df_to_score |-> <<>>, high |-> <<>>]
    /\ pc' = "chunks"
    /\ UNCHANGED <<env, world, RAG_INDEX, rag_warning, effects, arg>>

\* the next chunk is read, its columns found complete, the annotation
\* columns added and the rows to score selected within the budget; when
\* there is nothing to score the chunk is appended to OUTPUT_TMP as it is
ReadChunk ==
    /\ pc = "chunks"
    /\ ret.chunk_idx < ChunkCount(arg)
    /\ ret.chunk_idx > 0 \/ MissingCols(arg.columns) = <<>>
    /\ LET k      == ret.chunk_idx + 1
           chunk  == ChunkFrame(arg, k)
           df     == [j \in 1..Len(chunk) |-> WithOutputColumns(chunk[j])]
           masked == SelectSeq(Identity(Len(df)), LAMBDA j : Mask(df[j], arg))
       IN  IF masked = <<>> \/ ret.remaining_to_score = 0
           THEN /\ ret' = [ret EXCEPT !.chunk_idx = k, !.total_rows = @ + Len(df),
                                      !.wrote_header = TRUE, !.output = @ \o df,
                                      !.df = <<>>, !.to_score = <<>>,
                                      !.df_to_score = <<>>, !.high = <<>>]
                /\ effects' = [effects EXCEPT !.events = Append(@, "write")]
                /\ pc' = "chunks"
           ELSE /\ ret' = [ret EXCEPT
                             !.chunk_idx = k, !.total_rows = @ + Len(df), !.df = df,
                             !.to_score = Budgeted(masked, ret.remaining_to_score),
                             !.df_to_score = <<>>, !.high = <<>>]
                /\ effects' = effects
                /\ pc' = "score"
    /\ UNCHANGED <<env, world, RAG_INDEX, rag_warning, arg>>

\* position in the table of row j of the current chunk
TablePosition(j) == ChunkStart(arg, ret.chunk_idx) + j - 1

\* risk scoring: one get_chat_response per row of df_to_score
ScoreChunk ==
    /\ pc = "score"
    /\ ret' = [ret EXCEPT
                 !.df_to_score = [n \in 1..Len(ret.to_score) |->
                                     Scored(ret.df[ret.to_score[n]],
                                            arg.rows[TablePosition(ret.to_score[n])].reply)],
                 !.remaining_to_score = Spent(@, Len(ret.to_score))]
    /\ effects' = [effects EXCEPT
                     !.llm_calls = @ + Len(ret.to_score),
                     !.scored = @ \o [n \in 1..Len(ret.to_score) |->
                                         TablePosition(ret.to_score[n])]]
    /\ pc' = "recommend"
    /\ UNCHANGED <<env, world, RAG_INDEX, rag_warning, arg>>

\* recommendations: query_combined_prompt and parse_response_and_concerns
\* for the rows whose risk score is at or above the threshold
RecommendChunk ==
    /\ pc = "recommend"
    /\ LET high == SelectSeq(Identity(Len(ret.to_score)),
                             LAMBDA n : IsHigh(ret.df_to_score[n]["risk_score"],
                                               arg.threshold))
           q    == [n \in 1..Len(high) |->
                      query_combined_prompt(str(ret.df_to_score[high[n]]["full_note"]),
                                            RAG_INDEX, env, world.tie, "none")]
           at   == [n \in 1..Len(high) |-> TablePosition(ret.to_score[high[n]])]
       IN  /\ ret' = [ret EXCEPT
                        !.total_high_risk = @ + Len(high),
                        !.high = at,
                        !.df_to_score =
                            [n \in 1..Len(ret.to_score) |->
                                IF \E h \in 1..Len(high) : high[h] = n
                                THEN Recommended(ret.df_to_score[n],
                                                 q[CHOOSE h \in 1..Len(high) : high[h] = n],
                                                 arg.combined_reply)
                                ELSE ret.df_to_score[n]]]
           /\ effects' = [effects EXCEPT
                            !.llm_calls = @ + Len(high),
                            !.retrieve_calls =
                                @ + Len(SelectSeq(q, LAMBDA x : x.retrieved)),
                            !.format_calls =
                                @ + Len(SelectSeq(q, LAMBDA x : x.formatted)),
                            !.prompted = @ \o at,
                            !.retrieved =
                                @ \o LET r == SelectSeq(Identity(Len(high)),
                                                        LAMBDA n : q[n].retrieved)
                                     IN  [n \in 1..Len(r) |-> at[r[n]]]]
    /\ pc' = "merge"
    /\ UNCHANGED <<env, world, RAG_INDEX, rag_warning, arg>>

\* the annotated rows are merged back into the chunk, and the chunk is
\* appended to OUTPUT_TMP
WriteChunk ==
    /\ pc = "merge"
    /\ ret' = [ret EXCEPT
                 !.output = @ \o Merged(ret.df, ret.df_to_score, ret.to_score),
                 !.wrote_header = TRUE,
                 !.df = <<>>, !.to_score = <<>>, !.df_to_score = <<>>]
    /\ effects' = [effects EXCEPT !.events = Append(@, "write")]
    /\ pc' = "chunks"
    /\ UNCHANGED <<env, world, RAG_INDEX, rag_warning, arg>>

\* the first chunk lacks a required column: it is written through with
\* empty annotation columns and uploaded, the audit summary is written
\* and the process exits with status 2
MissingColumnsExit ==
    /\ pc = "chunks"
    /\ ret.chunk_idx = 0
    /\ ChunkCount(arg) > 0
    /\ MissingCols(arg.columns) # <<>>
    /\ LET df == [j \in 1..Len(ChunkFrame(arg, 1)) |->
                     WithOutputColumns(ChunkFrame(arg, 1)[j])]
       IN  /\ ret' = [ret EXCEPT
                        !.chunk_idx = 1,
                        !.total_rows = @ + Len(df),
                        !.output = df,
                        !.summary = MissingSummary(Len(df), MissingCols(arg.columns)),
                        !.exit_status = IF arg.audit_failures < AuditRetries THEN 2 ELSE 1]
           /\ effects' = [effects EXCEPT
                            !.events = @ \o <<"write", "upload">>
                                         \o AuditEvents(arg.audit_failures)]
           /\ pc' = IF arg.audit_failures < AuditRetries THEN "exited" ELSE "raised"
    /\ UNCHANGED <<env, world, RAG_INDEX, rag_warning, arg>>

\* s3.upload_file(OUTPUT_TMP, output_bucket, output_key), after the loop
UploadOutput ==
    /\ pc = "chunks"
    /\ ret.chunk_idx = ChunkCount(arg)
    /\ ret.wrote_header
    /\ effects' = [effects EXCEPT !.events = Append(@, "upload")]
    /\ pc' = "email"
    /\ UNCHANGED <<env, world, RAG_INDEX, rag_warning, arg, ret>>

\* the email: composed from the high-risk rows read back from OUTPUT_TMP,
\* logged on a dry run, sent through SES otherwise
SendEmail ==
    /\ pc = "email"
    /\ LET hi        == SelectSeq(ret.output,
                                  LAMBDA row : IsHigh(row["risk_score"], arg.threshold))
           attempted == ret.total_high_risk > 0 /\ hi # <<>> /\ ~arg.dry_run_email
       IN  /\ ret' = [ret EXCEPT !.email_sent = EmailSent(attempted, arg.ses)]
           /\ effects' = [effects EXCEPT
                            !.events = IF attempted
                                       THEN Append(@, IF arg.ses = "ok" THEN "ses_sent"
                                                      ELSE "ses_raised")
                                       ELSE @]
    /\ pc' = "audit"
    /\ UNCHANGED <<env, world, RAG_INDEX, rag_warning, arg>>

\* the audit summary, written with log_audit_summary
WriteAudit ==
    /\ pc = "audit"
    /\ ret' = [ret EXCEPT !.summary = Summary(ret.total_rows, ret.total_high_risk,
                                              ret.email_sent, <<>>)]
    /\ effects' = [effects EXCEPT !.events = @ \o AuditEvents(arg.audit_failures)]
    /\ pc' = IF arg.audit_failures < AuditRetries THEN "done" ELSE "raised"
    /\ UNCHANGED <<env, world, RAG_INDEX, rag_warning, arg>>

-----------------------------------------------------------------------------
(* Runs of the pipeline *)

MaxInputRows == 3

MaxBudget == 2

\* rows of the input: in the date range with a high, a low and an
\* unparseable risk reply, before the date range, of another physician
HighRow == [visit_date |-> 2, physician_id |-> 1, full_note |-> AB, reply |-> <<"R", "i", "s", "k", " ", "S", "c", "o", "r", "e", ":", " ", "9", "7">>]

LowRow == [visit_date |-> 2, physician_id |-> 1, full_note |-> AB, reply |-> <<"R", "i", "s", "k", " ", "S", "c", "o", "r", "e", ":", " ", "5", "0">>]

UnparseableRow == [visit_date |-> 3, physician_id |-> 1, full_note |-> AB, reply |-> EmptyStr]

EarlyRow == [visit_date |-> 1, physician_id |-> 1, full_note |-> AB, reply |-> <<"R", "i", "s", "k", " ", "S", "c", "o", "r", "e", ":", " ", "9", "7">>]

OtherPhysicianRow == [visit_date |-> 2, physician_id |-> 2, full_note |-> AB, reply |-> <<"R", "i", "s", "k", " ", "S", "c", "o", "r", "e", ":", " ", "9", "7">>]

Tables(rows) == SeqsUpTo(rows, MaxInputRows) \ {<<>>}

AllColumns == {"idx", "visit_date", "full_note", "physician_id", "clinic"}

\* the effects a run starts from
NoRunEffects ==
    [corpus_reads |-> 0, model_loads |-> 0, index_builds |-> 0,
     retrieve_calls |-> 0, format_calls |-> 0, llm_calls |-> 0,
     scored |-> <<>>, prompted |-> <<>>, retrieved |-> <<>>, events |-> <<>>]

Runs(rows, columns, chunksizes, budgets, filters, dry, ses, failures) ==
    [fn : {"run_pipeline"}, rows : rows, columns : columns, chunksize : chunksizes,
     max_notes : budgets, physician_id_filter : filters,
     start_date : {2}, end_date : {3}, threshold : {[num |-> 95, den |-> 100]},
     combined_reply : {StubCombinedReply},
     dry_run_email : dry, ses : ses, audit_failures : failures]

InitRun(enabled, runs) ==
    /\ env \in Envs(enabled, {"kb.csv"}, {"tfidf"}, {DefaultTopK}, {DefaultMaxChars},
                    {"true"}, {DefaultBatchSize}, {DefaultMaxLength})
    /\ world \in Worlds({TRUE}, {{"title", "text"}}, {<<[title |-> T, text |-> AB]>>},
                        {TRUE})
    /\ pc = "import"
    /\ RAG_INDEX = NoIndex
    /\ rag_warning = "none"
    /\ effects = NoRunEffects
    /\ arg \in runs
    /\ ret = NoCall

\* runs under a budget over chunks of one and two rows; runs with and
\* without a physician filter; runs that end with a dry run, a send that
\* succeeds or raises, an audit put that fails, and runs on a table that
\* lacks two of the required columns
InitPipeline ==
    \/ InitRun({"true"},
               Runs(Tables({HighRow, LowRow, EarlyRow}), {AllColumns}, {1, 2},
                    0..MaxBudget, {{}}, {TRUE}, {"ok"}, {0})
               \cup Runs(Tables({HighRow, UnparseableRow, OtherPhysicianRow}),
                         {AllColumns}, {2}, {0}, {{}, {1}}, {TRUE}, {"ok"}, {0}))
    \/ InitRun({"false"},
               Runs(Tables({HighRow, LowRow}),
                    {AllColumns, AllColumns \ {"visit_date", "physician_id"}}, {2},
                    {0}, {{}}, BOOLEAN, {"ok", "raises"}, {0, 1, AuditRetries}))

NextPipeline ==
    \/ ImportModule
    \/ StartRun
    \/ ReadChunk
    \/ ScoreChunk
    \/ RecommendChunk
    \/ WriteChunk
    \/ MissingColumnsExit
    \/ UploadOutput
    \/ SendEmail
    \/ WriteAudit

SpecPipeline == InitPipeline /\ [][NextPipeline]_vars

-----------------------------------------------------------------------------
(* Claims about run_pipeline *)

\* the loop over the chunks has ended and the run goes on after it
AllChunksProcessed == pc \in {"email", "audit", "done"}

\* the run has started: ret holds the local variables of run_pipeline
Running == pc \notin {"import", "run"}

Unannotated(row) == \A c \in Range(OutputColumns) : row[c] = NullCell(c)

\* row i of the input is in the date range and passes the physician filter
Eligible(i) ==
    /\ arg.rows[i].visit_date >= arg.start_date
    /\ arg.rows[i].visit_date <= arg.end_date
    /\ (arg.physician_id_filter # {}
           => arg.rows[i].physician_id \in arg.physician_id_filter)

\* C22: after run_pipeline has processed all chunks the output holds one
\* row per input row, in input order, with every input column and the
\* annotation columns; rows that were not scored (outside the date range or
\* the physician filter, or beyond the max_notes budget) have null in every
\* annotation column.
C22_MergePreservesRowsAndColumns ==
    AllChunksProcessed =>
        /\ Len(ret.output) = Len(arg.rows)
        /\ \A i \in 1..Len(ret.output) :
              /\ DOMAIN ret.output[i] = arg.columns \cup Range(OutputColumns)
              /\ \A c \in arg.columns : ret.output[i][c] = InputRow(arg, i)[c]
              /\ ~Eligible(i) => i \notin Range(effects.scored)
              /\ i \notin Range(effects.scored) => Unannotated(ret.output[i])
              /\ i \in Range(effects.scored) =>
                    ret.output[i]["risk_rating"] = PyStr(arg.rows[i].reply)

\* C22 witness: of three rows the first is scored and gets recommendations,
\* the second is before the date range, the third is beyond the budget of 1
C22_Witness ==
    /\ AllChunksProcessed
    /\ arg.max_notes = 1
    /\ arg.rows = <<HighRow, EarlyRow, LowRow>>
    /\ effects.scored = <<1>>
    /\ ret.output[1]["oncology_rec"] = PyStr(<<"N", "o">>)
    /\ Unannotated(ret.output[3])

\* the risk score of row i, read from the reply to its risk prompt, is at
\* or above the threshold
HighRisk(i) ==
    LET score == extract_risk_score(PyStr(arg.rows[i].reply))
    IN  /\ ~score.isNone
        /\ score.num * arg.threshold.den >= arg.threshold.num * score.den

NoRepeat(s) == \A m, n \in 1..Len(s) : m # n => s[m] # s[n]

\* C23: retrieve_kb is invoked at most once per note, and only for notes
\* that were scored and whose risk score is at or above the threshold; a
\* note with a lower or an unparseable score triggers neither retrieval nor
\* the recommendation prompt.
C23_RetrievalOnlyForHighRisk ==
    Running =>
        /\ NoRepeat(effects.retrieved)
        /\ NoRepeat(effects.prompted)
        /\ effects.retrieve_calls = Len(effects.retrieved)
        /\ \A i \in Range(effects.retrieved) \cup Range(effects.prompted) :
              i \in Range(effects.scored) /\ HighRisk(i)

\* C23 witness: retrieval has run for a high-risk note, and a note that was
\* scored below the threshold or without a score has been written without
\* retrieval or prompt
C23_Witness ==
    /\ AllChunksProcessed
    /\ effects.retrieved # <<>>
    /\ \E i \in Range(effects.scored) :
          /\ ~HighRisk(i)
          /\ i \notin Range(effects.prompted)
          /\ arg.rows[i].reply = EmptyStr

\* C27 (state part): with max_notes > 0 the notes sent for risk scoring never
\* exceed max_notes and the remaining budget is never negative; with
\* max_notes = 0 every eligible note of a finished run was scored.
BudgetKept ==
    /\ (Running /\ arg.max_notes > 0) =>
          /\ Len(effects.scored) <= arg.max_notes
          /\ ret.remaining_to_score >= 0
          /\ ret.remaining_to_score + Len(effects.scored) = arg.max_notes
    /\ (AllChunksProcessed /\ arg.max_notes = 0) =>
          \A i \in 1..Len(arg.rows) : Eligible(i) => i \in Range(effects.scored)

\* C27 (step part): a chunk read when the budget is 0 is passed through
\* unannotated, without any call of the model
ExhaustedBudgetPassesThrough ==
    (pc = "chunks" /\ ret.remaining_to_score = 0) =>
        /\ pc' \in {"chunks", "email"}
        /\ effects'.llm_calls = effects.llm_calls
        /\ effects'.scored = effects.scored
        /\ \A i \in (Len(ret.output) + 1)..Len(ret'.output) : Unannotated(ret'.output[i])

\* C27: when max_notes > 0 the number of notes sent for risk scoring over
\* all chunks never exceeds max_notes: the remaining budget is never
\* negative, and once it is 0 no further call is made for any later chunk,
\* whose rows are passed through unannotated; max_notes = 0 means no limit.
C27_BudgetNeverExceeded ==
    []BudgetKept /\ [][ExhaustedBudgetPassesThrough]_vars

\* C27 witness: budget 1, chunks of one row: the first row took the budget,
\* the eligible third row was passed through unannotated
C27_Witness ==
    /\ AllChunksProcessed
    /\ arg.max_notes = 1
    /\ arg.chunksize = 1
    /\ Len(arg.rows) = 3
    /\ effects.scored = <<1>>
    /\ Eligible(3)
    /\ Unannotated(ret.output[3])
    /\ ret.remaining_to_score = 0

CountOf(events, e) == Len(SelectSeq(events, LAMBDA x : x = e))

\* the events without the failed puts of the audit summary
WithoutFailedPuts(events) == SelectSeq(events, LAMBDA x : x # "audit_put_failed")

\* C29: if the first chunk lacks a required column, run_pipeline makes no
\* LLM call and sends no email: it writes that chunk through with null
\* annotation columns, uploads it, writes an audit summary with
\* high_risk_count 0, email_sent false and a warning naming the missing
\* columns, then exits with status 2.
C29_MissingColumnsExit ==
    (Running /\ MissingCols(arg.columns) # <<>>) =>
        /\ effects.llm_calls = 0
        /\ effects.retrieve_calls = 0
        /\ CountOf(effects.events, "ses_sent") + CountOf(effects.events, "ses_raised") = 0
        /\ pc \in {"chunks", "exited", "raised"}
        /\ pc = "raised" => arg.audit_failures >= AuditRetries
        /\ pc = "exited" =>
              /\ Len(ret.output) = Min(arg.chunksize, Len(arg.rows))
              /\ \A i \in 1..Len(ret.output) :
                    /\ DOMAIN ret.output[i] = arg.columns \cup Range(OutputColumns)
                    /\ \A c \in arg.columns : ret.output[i][c] = InputRow(arg, i)[c]
                    /\ Unannotated(ret.output[i])
              /\ WithoutFailedPuts(effects.events) = <<"write", "upload", "audit">>
              /\ ret.summary.high_risk_count = 0
              /\ ~ret.summary.email_sent
              /\ ret.summary.warning # <<>>
              /\ Range(ret.summary.warning)
                    = {"idx", "visit_date", "full_note", "physician_id"} \ arg.columns
              /\ ret.exit_status = 2

\* C29 witness: a table of three rows without visit_date and physician_id,
\* read in chunks of two: the first chunk is written and the process exits
C29_Witness ==
    /\ pc = "exited"
    /\ Len(arg.rows) = 3
    /\ Len(ret.output) = 2
    /\ ret.summary.warning = <<"visit_date", "physician_id">>
    /\ arg.rows[1] = HighRow
    /\ arg.audit_failures = 1

\* position of the only occurrence of e
PositionOf(events, e) == CHOOSE n \in 1..Len(events) : events[n] = e

\* C30: on every run that processes all chunks the output is uploaded
\* exactly once, after the last chunk, and the audit summary is written
\* exactly once, after that upload, also without high-risk notes, on a dry
\* run and when the SES send raises; email_sent of the summary is true iff
\* an SES send was attempted in this run and returned successfully.
C30_UploadOnceThenAudit ==
    /\ pc = "done" =>
          /\ CountOf(effects.events, "upload") = 1
          /\ CountOf(effects.events, "audit") = 1
          /\ CountOf(effects.events, "write") = ChunkCount(arg)
          /\ \A n \in 1..Len(effects.events) :
                effects.events[n] = "write" => n < PositionOf(effects.events, "upload")
          /\ PositionOf(effects.events, "upload") < PositionOf(effects.events, "audit")
          /\ PositionOf(effects.events, "audit") = Len(effects.events)
          /\ CountOf(effects.events, "ses_sent") + CountOf(effects.events, "ses_raised")
                = (IF ret.total_high_risk > 0 /\ ~arg.dry_run_email THEN 1 ELSE 0)
          /\ ret.summary.email_sent = (CountOf(effects.events, "ses_sent") = 1)
          /\ ret.summary.high_risk_count = Len(effects.prompted)
    /\ (pc = "raised" /\ MissingCols(arg.columns) = <<>>) =>
          /\ arg.audit_failures >= AuditRetries
          /\ CountOf(effects.events, "upload") = 1
          /\ CountOf(effects.events, "audit") = 0

\* C30 witness: a run with a high-risk note whose SES send raised: the
\* output was uploaded, the audit summary written at the second put, and
\* email_sent is false
C30_Witness ==
    /\ pc = "done"
    /\ arg.ses = "raises"
    /\ ~arg.dry_run_email
    /\ arg.audit_failures = 1
    /\ CountOf(effects.events, "ses_raised") = 1
    /\ ~ret.summary.email_sent
    /\ ret.summary.high_risk_count > 0

=============================================================================
